---------------------------- MODULE Spec2Model ----------------------------
(***************************************************************************)
(* Model of the FloraGo coordinator (tuhh-ncps/FloraLab):                  *)
(*   - the stack store        utils.FlowerStackManager                     *)
(*   - the control API        cmd: handleSpinUp / handleSpinStatus /       *)
(*                            handleSpinDown / the two registration        *)
(*                            handlers                                     *)
(*   - the proxy controller   utils.CaddyInstaller (the Caddyfile)         *)
(*   - the two agents         cmd: flowerserver / flowerclient             *)
(*                                                                         *)
(* Several specifications share the variables:                             *)
(*   Spec        the stack store driven through its exported methods       *)
(*   ApiSpec     the coordinator driven through its HTTP endpoints         *)
(*   LinSpec     the store called from several goroutines at once          *)
(*   JobsSpec    spin-ups that supersede a pending stack, and the agents   *)
(*               of the jobs they submitted                                *)
(*   LifeSpec    stacks that follow one another over one Caddyfile         *)
(*   SysSpec     one spin-up followed by the agents the batch job starts   *)
(*   SysLiveSpec SysSpec without failures, under weak fairness             *)
(*   OrderSpec   the store driven by first-time ready registrations only   *)
(*   PollSpec    several GetServerInfo callers and mutators of the store   *)
(*   PollLiveSpec PollSpec under weak fairness                             *)
(*   ConcSpec    concurrent POST /api/spin requests, step by step          *)
(*   RaceSpec    POST and DELETE /api/spin served at the same time         *)
(*   ProxySpec   the Caddyfile under a sequence of AddReverseProxy calls   *)
(*   FileSpec    the Caddyfile under concurrent AddReverseProxy calls      *)
(*   WaitSpec    a GetServerInfo caller while the store is changed         *)
(*   AliasSpec   a caller holding a server descriptor while the store is   *)
(*               changed                                                   *)
(*   PathSpec    the path layout and its users                             *)
(*   ScriptSpec  the batch script, the scheduler and the shell running it  *)
(***************************************************************************)
EXTENDS Integers, Sequences, FiniteSets, TLC

VARIABLES
    state,          \* FlowerStackManager.state (NoState is the nil pointer)
    ret,            \* what the last exported store method returned
    now,            \* the wall clock read by time.Now()
    currentJobID,   \* cmd.currentJobID
    nextJob,        \* batch jobs the scheduler has accepted so far
    caddyfile,      \* the lines of config/Caddyfile (NoFile: it does not exist)
    resp,           \* the last HTTP exchange of the coordinator
    serverAgent,    \* the flowerserver process of the submitted job
    clientAgents,   \* the flowerclient processes of the submitted job
    job,            \* the batch job: its script, its allocation and the shell
                    \* that runs the script
    spinUps,        \* the POST /api/spin requests being served concurrently
    waiter,         \* a caller blocked in GetServerInfo
    mu,             \* FlowerStackManager.mu: its writer and its readers
    goroutines,     \* the store calls in progress, one per goroutine
    linear          \* the store as the completed and committed calls,
                    \* applied one at a time in lock order, leave it

vars == <<state, ret, now, currentJobID, nextJob, caddyfile, resp,
          serverAgent, clientAgents, job, spinUps, waiter, mu, goroutines,
          linear>>

storeVars == <<state, ret, now>>
apiVars   == <<currentJobID, nextJob, caddyfile, resp>>
agentVars == <<serverAgent, clientAgents, job>>
linVars   == <<mu, goroutines, linear>>
reqVars   == <<spinUps, waiter, linVars>>

---------------------------------------------------------------------------
(* Bounds of the model. *)

\* spin-up asks for 1..MaxNodes client nodes
MaxNodes == 2
\* the clock runs from 1 to MaxTime
MaxTime == 2
\* the scheduler accepts at most MaxJobs submissions
MaxJobs == 2
\* goroutines calling the store at the same time
MaxCalls == 2
\* POST /api/spin requests in flight at the same time
MaxRequests == 2
\* CompletedNodes is followed up to this value (it has no bound in the code)
MaxCompleted == MaxNodes + 3
\* the clock of PollSpec runs to this value: a caller can sleep twice
MaxPollTime == MaxTime + 1

---------------------------------------------------------------------------
(* Values. *)

\* the nil pointers (*FlowerStackState, *FlowerServerNode) and the empty map
NoState  == [nil |-> "state"]
NoNode   == [nil |-> "node"]
EmptyMap == [id \in {} |-> NoNode]
\* the Caddyfile before it is created
NoFile   == [exists |-> FALSE, lines |-> << >>]
NoResp   == [op |-> "none"]
\* a request goroutine that has not been started
NoRequest == [pc |-> "none", numNodes |-> 0, jobID |-> "", code |-> 0]

\* the zero time.Time
ZeroTime == 0

StackStatus  == {"pending", "starting", "running"}
ServerStatus == {"starting", "ready", "failed"}
ClientStatus == {"waiting", "starting", "ready", "failed"}

ServerIPs == {"10.0.0.1"}
ClientIPs == {"10.0.0.2", "10.0.0.3", "10.0.0.4"}
IPs       == ServerIPs \cup ClientIPs

\* the agents' default ports (getEnvInt defaults)
ServerAppIOAPIPort == 9091
FleetAPIPort       == 9092
ControlAPIPort     == 9093
\* a control port chosen with --control-port, and the ports a server agent
\* may announce
OtherControlAPIPort == 909
ControlPorts == {ControlAPIPort, OtherControlAPIPort}

\* fmt.Sprintf("server-%s", ip) and fmt.Sprintf("client-%s", ip)
ServerNodeID(ip) == "server-" \o ip
ClientNodeID(ip) == "client-" \o ip

\* the FlowerServerNode the server registration handler builds
NewServerNode(ip, appPort, fleetPort, controlPort, status) ==
    [ NodeID             |-> ServerNodeID(ip),
      IP                 |-> ip,
      ServerAppIOAPIPort |-> appPort,
      FleetAPIPort       |-> fleetPort,
      ControlAPIPort     |-> controlPort,
      Status             |-> status ]

\* the FlowerClientNode the client registration handler builds
NewClientNode(ip, status) ==
    [ NodeID |-> ClientNodeID(ip), IP |-> ip, Status |-> status ]

\* the descriptors a caller of the store may pass
ServerNodes ==
    { NewServerNode(ip, ServerAppIOAPIPort, FleetAPIPort, ControlAPIPort, st) :
        ip \in ServerIPs, st \in ServerStatus }
ClientNodes ==
    { NewClientNode(ip, st) : ip \in ClientIPs, st \in ClientStatus }

\* the job id the scheduler gives its k-th job
JobToken(k) ==
    CASE k = 1 -> "12345"
      [] k = 2 -> "12346"
      [] k = 3 -> "12347"
      [] OTHER -> "12348"

---------------------------------------------------------------------------
(* The stack store: utils.FlowerStackManager.  Every method takes the     *)
(* manager's lock for its whole body, so each is one atomic step.  The     *)
(* operators below give a method's effect on the store value s at time t   *)
(* as [state |-> the store afterwards, err |-> the error returned].        *)

Nil == "nil"

\* a goroutine that has not called the store
NoCall == [pc |-> "none", op |-> "none", node |-> NoNode, snap |-> NoState,
           window |-> {}]

\* no batch job has been handed to the scheduler
NoJob == [pc |-> "none", req |-> [NumNodes |-> 0], script |-> << >>,
          hosts |-> << >>, at |-> 0, clients |-> << >>, rest |-> << >>,
          node |-> "", index |-> 0, launched |-> << >>]

\* nobody is in GetServerInfo
NoWaiter == [pc |-> "idle", deadline |-> 0, polls |-> 0, lastPoll |-> 0,
             node |-> NoNode, err |-> Nil]

\* InitializeStack expecting the clients only
InitializeStackOp_ClientsOnly(jobID, numNodes) ==
    [ JobID          |-> jobID,
      Status         |-> "pending",
      NumNodes       |-> numNodes,
      ServerNode     |-> NoNode,
      ClientNodes    |-> EmptyMap,
      CompletionTime |-> ZeroTime,
      ExpectedNodes  |-> numNodes,
      CompletedNodes |-> 0 ]

\* InitializeStack(jobID, numNodes)
InitializeStackOp(jobID, numNodes) ==
    [ JobID          |-> jobID,
      Status         |-> "pending",
      NumNodes       |-> numNodes,
      ServerNode     |-> NoNode,
      ClientNodes    |-> EmptyMap,
      CompletionTime |-> ZeroTime,
      ExpectedNodes  |-> 1 + numNodes,
      CompletedNodes |-> 0 ]

\* checkCompletion(), called with the lock held
checkCompletion(s, t) ==
    IF s.CompletedNodes >= s.ExpectedNodes
    THEN [s EXCEPT !.Status = "running", !.CompletionTime = t]
    ELSE s

\* RegisterServerNode without the completion check after the ready-increment
RegisterServerNodeOp_NoCheck(s, node, t) ==
    IF s = NoState
    THEN [state |-> s, err |-> "stack not initialized"]
    ELSE LET s1 == [s EXCEPT !.ServerNode = node, !.Status = "starting"]
             s2 == IF node.Status = "ready"
                   THEN [s1 EXCEPT !.CompletedNodes = @ + 1]
                   ELSE s1
         IN  [state |-> s2, err |-> Nil]

\* RegisterServerNode(node)
RegisterServerNodeOp(s, node, t) ==
    IF s = NoState
    THEN [state |-> s, err |-> "stack not initialized"]
    ELSE LET s1 == [s EXCEPT !.ServerNode = node, !.Status = "starting"]
             s2 == IF node.Status = "ready"
                   THEN checkCompletion(
                          [s1 EXCEPT !.CompletedNodes = @ + 1], t)
                   ELSE s1
         IN  [state |-> s2, err |-> Nil]

\* m.state.ClientNodes[node.NodeID] = node
PutClient(clients, node) ==
    [id \in DOMAIN clients \cup {node.NodeID} |->
        IF id = node.NodeID THEN node ELSE clients[id]]

\* RegisterClientNode that reports success when there is no stack
RegisterClientNodeOp_NoNilCheck(s, node, t) ==
    IF s = NoState
    THEN [state |-> s, err |-> Nil]
    ELSE LET s1 == [s EXCEPT !.ClientNodes = PutClient(@, node)]
             s2 == IF node.Status = "ready"
                   THEN checkCompletion(
                          [s1 EXCEPT !.CompletedNodes = @ + 1], t)
                   ELSE s1
         IN  [state |-> s2, err |-> Nil]

\* RegisterClientNode(node)
RegisterClientNodeOp(s, node, t) ==
    IF s = NoState
    THEN [state |-> s, err |-> "stack not initialized"]
    ELSE LET s1 == [s EXCEPT !.ClientNodes = PutClient(@, node)]
             s2 == IF node.Status = "ready"
                   THEN checkCompletion(
                          [s1 EXCEPT !.CompletedNodes = @ + 1], t)
                   ELSE s1
         IN  [state |-> s2, err |-> Nil]

\* UpdateServerNodeStatus(nodeID, status); nodeID is not read by the code
UpdateServerNodeStatusOp(s, nodeID, status, t) ==
    IF (IF s = NoState THEN TRUE ELSE s.ServerNode = NoNode)
    THEN [state |-> s, err |-> "server node not found"]
    ELSE LET oldStatus == s.ServerNode.Status
             s1 == [s EXCEPT !.ServerNode.Status = status]
             s2 == IF oldStatus # "ready" /\ status = "ready"
                   THEN checkCompletion(
                          [s1 EXCEPT !.CompletedNodes = @ + 1], t)
                   ELSE s1
         IN  [state |-> s2, err |-> Nil]

\* UpdateClientNodeStatus(nodeID, status)
UpdateClientNodeStatusOp(s, nodeID, status, t) ==
    IF s = NoState
    THEN [state |-> s, err |-> "stack not initialized"]
    ELSE IF nodeID \notin DOMAIN s.ClientNodes
    THEN [state |-> s, err |-> "client node not found"]
    ELSE LET oldStatus == s.ClientNodes[nodeID].Status
             s1 == [s EXCEPT !.ClientNodes[nodeID].Status = status]
             s2 == IF oldStatus # "ready" /\ status = "ready"
                   THEN checkCompletion(
                          [s1 EXCEPT !.CompletedNodes = @ + 1], t)
                   ELSE s1
         IN  [state |-> s2, err |-> Nil]

\* GetState(): a copy of the stack, its server and its clients, or nil
GetState(s) == s

\* IsStackRunning()
IsStackRunning(s) ==
    IF s = NoState THEN FALSE ELSE s.Status \in {"starting", "running"}

\* the check of GetServerInfo with the status left out
ServerReady_AnyStatus(s) ==
    IF s = NoState THEN FALSE ELSE s.ServerNode # NoNode

\* one poll of GetServerInfo: the check made under the read lock
ServerReady(s) ==
    IF s = NoState THEN FALSE
    ELSE IF s.ServerNode = NoNode THEN FALSE
    ELSE s.ServerNode.Status = "ready"

\* GetServerInfo(timeout): the ready server, or the timeout error once the
\* deadline has passed without a poll finding one
GetServerInfoOp(s) ==
    IF ServerReady(s)
    THEN [node |-> s.ServerNode, err |-> Nil]
    ELSE [node |-> NoNode,
          err  |-> "timeout waiting for server node to be ready"]

\* the store can follow the count one step further
CanCount(s) == IF s = NoState THEN TRUE ELSE s.CompletedNodes < MaxCompleted

---------------------------------------------------------------------------
(* Spec: the store driven through its exported methods. *)

Init ==
    /\ state = NoState
    /\ ret = [op |-> "NewFlowerStackManager", err |-> Nil]
    /\ now = 1
    /\ currentJobID = ""
    /\ nextJob = 0
    /\ caddyfile = NoFile
    /\ resp = NoResp
    /\ serverAgent = [pc |-> "none", daemons |-> {}, posts |-> 0,
                      exit |-> -1, server |-> NoNode, failed |-> {},
                      child |-> -1]
    /\ clientAgents = EmptyMap
    /\ job = NoJob
    /\ spinUps = [r \in 1..MaxRequests |-> NoRequest]
    /\ waiter = NoWaiter
    /\ mu = [writer |-> 0, readers |-> 0]
    /\ goroutines = [g \in 1..MaxCalls |-> NoCall]
    /\ linear = NoState

\* time passes
Tick ==
    /\ now < MaxTime
    /\ now' = now + 1
    /\ UNCHANGED <<state, ret, apiVars, agentVars, reqVars>>

InitializeStack(jobID, numNodes) ==
    /\ state' = InitializeStackOp(jobID, numNodes)
    /\ ret' = [op |-> "InitializeStack", err |-> Nil]
    /\ UNCHANGED <<now, apiVars, agentVars, reqVars>>

RegisterServerNode(node) ==
    /\ CanCount(state)
    /\ LET r == RegisterServerNodeOp(state, node, now)
       IN  /\ state' = r.state
           /\ ret' = [op |-> "RegisterServerNode", err |-> r.err]
    /\ UNCHANGED <<now, apiVars, agentVars, reqVars>>

RegisterClientNode(node) ==
    /\ CanCount(state)
    /\ LET r == RegisterClientNodeOp(state, node, now)
       IN  /\ state' = r.state
           /\ ret' = [op |-> "RegisterClientNode", err |-> r.err]
    /\ UNCHANGED <<now, apiVars, agentVars, reqVars>>

UpdateServerNodeStatus(nodeID, status) ==
    /\ CanCount(state)
    /\ LET r == UpdateServerNodeStatusOp(state, nodeID, status, now)
       IN  /\ state' = r.state
           /\ ret' = [op |-> "UpdateServerNodeStatus", err |-> r.err]
    /\ UNCHANGED <<now, apiVars, agentVars, reqVars>>

UpdateClientNodeStatus(nodeID, status) ==
    /\ CanCount(state)
    /\ LET r == UpdateClientNodeStatusOp(state, nodeID, status, now)
       IN  /\ state' = r.state
           /\ ret' = [op |-> "UpdateClientNodeStatus", err |-> r.err]
    /\ UNCHANGED <<now, apiVars, agentVars, reqVars>>

\* ClearState() with the rollback left out: the store keeps what it holds
ClearStateOp_Keep(s) == s

\* ClearState(): m.state = nil
ClearStateOp(s) == NoState

\* ClearState()
ClearState ==
    /\ state' = ClearStateOp(state)
    /\ ret' = [op |-> "ClearState", err |-> Nil]
    /\ UNCHANGED <<now, apiVars, agentVars, reqVars>>

Next ==
    \/ Tick
    \/ \E n \in 1..MaxNodes : InitializeStack(JobToken(1), n)
    \/ \E node \in ServerNodes : RegisterServerNode(node)
    \/ \E node \in ClientNodes : RegisterClientNode(node)
    \/ \E ip \in ServerIPs, st \in ServerStatus :
          UpdateServerNodeStatus(ServerNodeID(ip), st)
    \/ \E ip \in ClientIPs, st \in ClientStatus :
          UpdateClientNodeStatus(ClientNodeID(ip), st)
    \/ ClearState

Spec == Init /\ [][Next]_vars

---------------------------------------------------------------------------
(* The scheduler adapter and the proxy controller, as the handlers use     *)
(* them.                                                                   *)

StatusOK                  == 200
StatusBadRequest          == 400
StatusNotFound            == 404
StatusConflict            == 409
StatusInternalServerError == 500
\* the handler panicked: net/http recovers, aborts the connection and the
\* client gets no response
NoStatus                  == 0

\* what sbatch prints for its k-th accepted job, as whitespace-separated words;
\* "noisy" is the same line behind a warning on the combined output
SbatchOutput(k, noisy) ==
    (IF noisy THEN <<"sbatch:", "warning">> ELSE << >>)
    \o <<"Submitted", "batch", "job", JobToken(k)>>

\* parseJobID: fmt.Sscanf(output, "Submitted batch job %s", &jobID)
parseJobID(output) ==
    IF /\ Len(output) >= 4
       /\ SubSeq(output, 1, 3) = <<"Submitted", "batch", "job">>
    THEN output[4]
    ELSE ""

\* strings.Contains(line, sub)
Contains(line, sub) ==
    \E i \in 1..(Len(line) - Len(sub) + 1) :
        SubSeq(line, i, i + Len(sub) - 1) = sub

\* GetCaddyfileTemplate(), as the lines a scanner reads back
CaddyfileTemplate ==
    << "{", "\t# Global options", "\tadmin localhost:2019",
       "\tauto_https off", "}" >>

\* proxyLabel := fmt.Sprintf("# Flower Control API - Port %d", localPort)
ProxyLabel(localPort) == "# Flower Control API - Port " \o ToString(localPort)

\* the lines of proxyConfig
ProxyConfig(localPort, targetAddress, targetPort) ==
    << ProxyLabel(localPort),
       ":" \o ToString(localPort) \o " {",
       "\treverse_proxy " \o targetAddress \o ":" \o ToString(targetPort),
       "}" >>

\* AddReverseProxy without the test for an existing marker
AddReverseProxy_NoCheck(f, localPort, targetAddress, targetPort, writable) ==
    IF ~f.exists
    THEN [file |-> f, err |-> "failed to open Caddyfile"]
    ELSE IF ~writable
    THEN [file |-> f, err |-> "failed to write Caddyfile"]
    ELSE [file |-> [f EXCEPT !.lines =
                       @ \o ProxyConfig(localPort, targetAddress, targetPort)],
          err  |-> Nil]

\* AddReverseProxy(localPort, targetAddress, targetPort) on the file f, where
\* writable says whether WriteFile succeeds: the file afterwards and the error
AddReverseProxy(f, localPort, targetAddress, targetPort, writable) ==
    IF ~f.exists
    THEN [file |-> f, err |-> "failed to open Caddyfile"]
    ELSE IF \E i \in 1..Len(f.lines) :
                Contains(f.lines[i], ProxyLabel(localPort))
    THEN [file |-> f, err |-> Nil]
    ELSE IF ~writable
    THEN [file |-> f, err |-> "failed to write Caddyfile"]
    ELSE [file |-> [f EXCEPT !.lines =
                       @ \o ProxyConfig(localPort, targetAddress, targetPort)],
          err  |-> Nil]

\* ConfigureFlowerControlProxy(controlPort, superlinkIP), where reloads says
\* whether `caddy reload` succeeds
ConfigureFlowerControlProxy(f, controlPort, superlinkIP, writable, reloads) ==
    LET a == AddReverseProxy(f, controlPort, superlinkIP, controlPort, writable)
    IN  IF a.err # Nil
        THEN [file |-> a.file, err |-> "failed to add reverse proxy"]
        ELSE IF ~reloads
        THEN [file |-> a.file, err |-> "failed to reload Caddy"]
        ELSE [file |-> a.file, err |-> Nil]

---------------------------------------------------------------------------
(* WaitSpec: a caller blocked in GetServerInfo while the store is changed  *)
(* through its exported methods.  GetServerInfo takes the read lock for    *)
(* each check and sleeps 500 ms between checks; the clock advances by      *)
(* Tick.                                                                   *)

\* the timeouts GetServerInfo is called with, in clock steps
Timeouts == 0..MaxTime

\* GetServerInfo(timeout): deadline := time.Now().Add(timeout)
GetServerInfoCall(timeout) ==
    /\ waiter.pc \in {"idle", "returned"}
    /\ waiter' = [NoWaiter EXCEPT !.pc = "waiting",
                                  !.deadline = now + timeout]
    /\ UNCHANGED <<storeVars, apiVars, agentVars, spinUps, linVars>>

\* one turn of the loop: time.Now().Before(deadline), and then the check
\* under the read lock; a check that fails is followed by the sleep, so the
\* next turn finds a later clock.  waiter.node is the descriptor as it is
\* at the moment of the return
GetServerInfoPoll ==
    /\ waiter.pc = "waiting"
    /\ now > waiter.lastPoll
    /\ waiter' =
          IF ~(now < waiter.deadline)
          THEN [waiter EXCEPT
                  !.pc = "returned",
                  !.err = "timeout waiting for server node to be ready"]
          ELSE IF ServerReady(state)
          THEN [waiter EXCEPT !.pc = "returned", !.polls = @ + 1,
                              !.lastPoll = now, !.node = state.ServerNode]
          ELSE [waiter EXCEPT !.polls = @ + 1, !.lastPoll = now]
    /\ UNCHANGED <<storeVars, apiVars, agentVars, spinUps, linVars>>

WaitNext ==
    \/ Tick
    \/ \E n \in 1..MaxNodes : InitializeStack(JobToken(1), n)
    \/ \E node \in ServerNodes : RegisterServerNode(node)
    \/ \E id \in {ServerNodeID(ip) : ip \in ServerIPs}, st \in ServerStatus :
          UpdateServerNodeStatus(id, st)
    \/ ClearState
    \/ \E timeout \in Timeouts : GetServerInfoCall(timeout)
    \/ GetServerInfoPoll

WaitSpec == Init /\ [][WaitNext]_vars

---------------------------------------------------------------------------
(* ApiSpec: the coordinator driven through its HTTP endpoints, one request *)
(* at a time.                                                              *)

\* what the environment does to one spin-up
SpinUpOutcomes ==
    {"tmpdir_error", "write_error", "sbatch_error", "submitted", "noisy"}

\* a SpinResponse without state
SpinResponse(op, code, success, jobID, st) ==
    [op |-> op, code |-> code, success |-> success, job_id |-> jobID,
     state |-> st]

\* florago init: CreateDefaultCaddyfile()
CreateDefaultCaddyfile ==
    /\ ~caddyfile.exists
    /\ caddyfile' = [exists |-> TRUE, lines |-> CaddyfileTemplate]
    /\ UNCHANGED <<storeVars, currentJobID, nextJob, resp, agentVars, reqVars>>

\* handleSpinUp going on with any decoded body
ValidSpinRequest_AnyCount(decodes, numNodes) == decodes

\* handleSpinUp: the body decodes and req.NumNodes >= 1
ValidSpinRequest(decodes, numNodes) == decodes /\ numNodes >= 1

\* what the handler did outside the store: script, utils.WriteFile wrote the
\* job script; sbatch, the number of SlurmClient.Sbatch calls
NoEffects == [script |-> FALSE, sbatch |-> 0]

SpinUpEffects(outcome) ==
    [script |-> outcome \notin {"tmpdir_error", "write_error"},
     sbatch |-> IF outcome \in {"tmpdir_error", "write_error"} THEN 0 ELSE 1]

\* POST /api/spin: handleSpinUp.  decodes: the body is JSON; numNodes: its
\* num_nodes; outcome: what the file system and sbatch do
HandleSpinUp(decodes, numNodes, outcome) ==
    LET op == "POST /api/spin" IN
    /\ outcome \in {"submitted", "noisy"} => nextJob < MaxJobs
    /\ IF ~ValidSpinRequest(decodes, numNodes)
       THEN /\ resp' = SpinResponse(op, StatusBadRequest, FALSE, "", NoState)
                          @@ NoEffects
            /\ UNCHANGED <<state, currentJobID, nextJob>>
       ELSE IF IsStackRunning(state)
       THEN /\ resp' = SpinResponse(op, StatusConflict, FALSE, "",
                                    GetState(state)) @@ NoEffects
            /\ UNCHANGED <<state, currentJobID, nextJob>>
       ELSE IF outcome \in {"tmpdir_error", "write_error", "sbatch_error"}
       THEN /\ resp' = SpinResponse(op, StatusInternalServerError, FALSE, "",
                                    NoState) @@ SpinUpEffects(outcome)
            /\ state' = ClearStateOp(state)
            /\ UNCHANGED <<currentJobID, nextJob>>
       ELSE LET jobID == parseJobID(
                            SbatchOutput(nextJob + 1, outcome = "noisy"))
                st    == InitializeStackOp(jobID, numNodes)
            IN  /\ nextJob' = nextJob + 1
                /\ currentJobID' = jobID
                /\ state' = st
                /\ resp' = SpinResponse(op, StatusOK, TRUE, jobID,
                                        GetState(st)) @@ SpinUpEffects(outcome)
    /\ UNCHANGED <<ret, now, caddyfile, agentVars, reqVars>>

\* GET /api/spin: handleSpinStatus
HandleSpinStatus ==
    LET op == "GET /api/spin"
        st == GetState(state)
    IN  /\ resp' = IF st = NoState
                   THEN [op |-> op, code |-> NoStatus]   \* state.Status on nil
                   ELSE SpinResponse(op, StatusOK, TRUE, currentJobID, st)
        /\ UNCHANGED <<storeVars, currentJobID, nextJob, caddyfile, agentVars, reqVars>>

\* handleSpinDown going on to clear the store whatever scancel returned
SpinDownOutcome_IgnoreError(jobID, cancels) ==
    IF jobID = "" THEN "not_found" ELSE "cancelled"

\* the branch handleSpinDown takes: no job id recorded, Scancel returned an
\* error, or the job was cancelled
SpinDownOutcome(jobID, cancels) ==
    IF jobID = "" THEN "not_found"
    ELSE IF ~cancels THEN "cancel_failed"
    ELSE "cancelled"

\* DELETE /api/spin: handleSpinDown.  cancels: scancel exits zero.  The
\* scancel field of the exchange lists the job ids the handler passed to
\* SlurmClient.Scancel, one entry per call
HandleSpinDown(cancels) ==
    LET op  == "DELETE /api/spin"
        out == SpinDownOutcome(currentJobID, cancels)
    IN
    /\ IF out = "not_found"
       THEN /\ resp' = [op |-> op, code |-> StatusNotFound, success |-> FALSE,
                        job_id |-> "", scancel |-> << >>]
            /\ UNCHANGED <<state, currentJobID>>
       ELSE IF out = "cancel_failed"
       THEN /\ resp' = [op |-> op, code |-> StatusInternalServerError,
                        success |-> FALSE, job_id |-> "",
                        scancel |-> <<currentJobID>>]
            /\ UNCHANGED <<state, currentJobID>>
       ELSE /\ resp' = [op |-> op, code |-> StatusOK, success |-> TRUE,
                        job_id |-> currentJobID,
                        scancel |-> <<currentJobID>>]
            /\ state' = ClearStateOp(state)
            /\ currentJobID' = ""
    /\ UNCHANGED <<ret, now, nextJob, caddyfile, agentVars, reqVars>>

\* POST /api/flower/server.  proxy is what the handler logged about the
\* reverse proxy: "none" (not attempted), "ok" or "failed"
PostServer(decodes, ip, appPort, fleetPort, controlPort, writable, reloads) ==
    LET op == "POST /api/flower/server" IN
    /\ CanCount(state)
    /\ IF ~decodes
       THEN /\ resp' = [op |-> op, code |-> StatusBadRequest,
                        body |-> "Invalid request", proxy |-> "none"]
            /\ UNCHANGED <<state, caddyfile>>
       ELSE LET node == NewServerNode(ip, appPort, fleetPort, controlPort,
                                      "ready")
                r    == RegisterServerNodeOp(state, node, now)
                c    == ConfigureFlowerControlProxy(caddyfile, controlPort,
                                                    ip, writable, reloads)
            IN  IF r.err # Nil
                THEN /\ resp' = [op |-> op, code |-> StatusInternalServerError,
                                 body |-> r.err, proxy |-> "none"]
                     /\ UNCHANGED <<state, caddyfile>>
                ELSE /\ state' = r.state
                     /\ caddyfile' = c.file
                     /\ resp' = [op |-> op, code |-> StatusOK,
                                 body |-> "registered",
                                 proxy |-> IF c.err = Nil THEN "ok"
                                           ELSE "failed"]
    /\ UNCHANGED <<ret, now, currentJobID, nextJob>>

HandlePostServer(decodes, ip, appPort, fleetPort, controlPort, writable, reloads) ==
    /\ PostServer(decodes, ip, appPort, fleetPort, controlPort,
                  writable, reloads)
    /\ UNCHANGED <<agentVars, reqVars>>

\* GET /api/flower/server.  The handler polls GetServerInfo for up to 300 s;
\* the step is the moment it answers: with the ready server, or with 404 once
\* the deadline has passed without a poll finding one
GetServer ==
    LET op == "GET /api/flower/server"
        r  == GetServerInfoOp(state)
    IN  /\ resp' = IF r.err # Nil
                   THEN [op |-> op, code |-> StatusNotFound, node |-> NoNode]
                   ELSE [op |-> op, code |-> StatusOK, node |-> r.node]
        /\ UNCHANGED <<storeVars, currentJobID, nextJob, caddyfile>>

HandleGetServer ==
    /\ GetServer
    /\ UNCHANGED <<agentVars, reqVars>>

\* POST /api/flower/client
HandlePostClient(decodes, ip) ==
    LET op == "POST /api/flower/client" IN
    /\ CanCount(state)
    /\ IF ~decodes
       THEN /\ resp' = [op |-> op, code |-> StatusBadRequest,
                        body |-> "Invalid request"]
            /\ UNCHANGED state
       ELSE LET r == RegisterClientNodeOp(state, NewClientNode(ip, "ready"),
                                          now)
            IN  IF r.err # Nil
                THEN /\ resp' = [op |-> op, code |-> StatusInternalServerError,
                                 body |-> r.err]
                     /\ UNCHANGED state
                ELSE /\ state' = r.state
                     /\ resp' = [op |-> op, code |-> StatusOK,
                                 body |-> "registered"]
    /\ UNCHANGED <<ret, now, currentJobID, nextJob, caddyfile, agentVars, reqVars>>

\* The handlers read the clock only through checkCompletion's stamp, so the
\* clock stands still here; Spec and WaitSpec let it run.
ApiNext ==
    \/ CreateDefaultCaddyfile
    \/ \E decodes \in BOOLEAN, n \in 0..MaxNodes, outcome \in SpinUpOutcomes :
          HandleSpinUp(decodes, n, outcome)
    \/ HandleSpinStatus
    \/ \E cancels \in BOOLEAN : HandleSpinDown(cancels)
    \/ \E decodes, writable, reloads \in BOOLEAN, ip \in ServerIPs,
          controlPort \in ControlPorts :
          HandlePostServer(decodes, ip, ServerAppIOAPIPort, FleetAPIPort,
                           controlPort, writable, reloads)
    \/ HandleGetServer
    \/ \E decodes \in BOOLEAN, ip \in ClientIPs : HandlePostClient(decodes, ip)

ApiSpec == Init /\ [][ApiNext]_vars

---------------------------------------------------------------------------
(* ProxySpec: the proxy controller alone.  The Caddyfile is created by     *)
(* florago init and then changed only by AddReverseProxy calls, one after  *)
(* the other.                                                              *)

\* the external ports and targets the calls are made with
RoutePorts == ControlPorts
RouteTargets == {"10.0.0.1", "10.0.0.2"}

\* CaddyInstaller.AddReverseProxy(localPort, targetAddress, targetPort)
AddRoute(localPort, targetAddress, targetPort, writable) ==
    LET a == AddReverseProxy(caddyfile, localPort, targetAddress, targetPort,
                             writable)
    IN  /\ caddyfile' = a.file
        /\ ret' = [op |-> "AddReverseProxy", err |-> a.err,
                   localPort |-> localPort, targetAddress |-> targetAddress,
                   targetPort |-> targetPort]
        /\ UNCHANGED <<state, now, currentJobID, nextJob, resp, agentVars,
                       reqVars>>

ProxyNext ==
    \/ CreateDefaultCaddyfile
    \/ \E p, q \in RoutePorts, a \in RouteTargets, writable \in BOOLEAN :
          AddRoute(p, a, q, writable)

ProxySpec == Init /\ [][ProxyNext]_vars

---------------------------------------------------------------------------
(* PathSpec: the path layout and its users, called in a process whose      *)
(* environment has HOME = home ("" when it is unset).                      *)

\* the host-wide temp directory
HostTempDir == "/tmp"

\* the values of HOME
Homes == {"", "/home/alice", "/home/bob", "/work/carol"}

\* the values of SLURM_JOB_ID in an agent's environment
JobIDs == {"", JobToken(1)}

\* strings.HasPrefix(str, prefix)
HasPrefix(str, prefix) ==
    /\ Len(str) >= Len(prefix)
    /\ SubSeq(str, 1, Len(prefix)) = prefix

\* filepath.Join(a, b) for clean elements: empty elements are ignored
Join(a, b) ==
    IF a = "" THEN b
    ELSE IF b = "" THEN a
    ELSE a \o "/" \o b

\* os.UserHomeDir() on Unix: $HOME, or an error when it is empty
UserHomeDir(home) ==
    IF home = "" THEN [path |-> "", err |-> "$HOME is not defined"]
    ELSE [path |-> home, err |-> Nil]

\* a function of the layout that appends sub to what parent returned
SubDir(parent, sub) ==
    IF parent.err # Nil THEN [path |-> "", err |-> parent.err]
    ELSE [path |-> Join(parent.path, sub), err |-> Nil]

GetFloraGoHome(home) == SubDir(UserHomeDir(home), ".florago")

\* mkdirOK: CreateDirectory succeeds
GetFloraGoTempDir(home, mkdirOK) ==
    LET d == SubDir(GetFloraGoHome(home), "tmp")
    IN  IF d.err = Nil /\ ~mkdirOK
        THEN [path |-> "", err |-> "failed to create temp directory"]
        ELSE d

GetFloraGoBinDir(home) == SubDir(GetFloraGoHome(home), "bin")
GetFloraGoDataDir(home) == SubDir(GetFloraGoHome(home), "data")
GetFloraGoLogsDir(home) == SubDir(GetFloraGoHome(home), "logs")
GetCaddyfilePath(home) ==
    SubDir(SubDir(GetFloraGoHome(home), "config"), "Caddyfile")
GetFlowerAIVenvPath(home) ==
    SubDir(SubDir(GetFloraGoHome(home), "venv"), "flowerai-env")

\* handleSpinUp: scriptPath, named after the clock
ScriptPath(home, mkdirOK, t) ==
    SubDir(GetFloraGoTempDir(home, mkdirOK),
           "flower_stack_" \o ToString(t) \o ".sh")

\* flowerserver / flowerclient: jobLogDir; the error of GetFloraGoLogsDir is
\* dropped and the directory is made whatever it is
JobLogDir(home, jobID) ==
    [path |-> GetFloraGoLogsDir(home).path \o "/"
                 \o (IF jobID = "" THEN "local" ELSE jobID),
     err  |-> Nil]

\* DebuggerManager.GetDelveBinaryPath() on a new manager (binaryPath = "")
GetDelveBinaryPath(home) ==
    LET b      == GetFloraGoBinDir(home)
        binDir == IF b.err = Nil THEN b.path
                  ELSE Join(Join(IF home = "" THEN "/tmp" ELSE home,
                                 ".florago"), "bin")
    IN  [path |-> Join(binDir, "dlv"), err |-> Nil]

PathOps ==
    {"GetFloraGoHome", "GetFloraGoTempDir", "GetFloraGoBinDir",
     "GetFloraGoDataDir", "GetFloraGoLogsDir", "GetCaddyfilePath",
     "GetFlowerAIVenvPath", "scriptPath", "jobLogDir", "GetDelveBinaryPath"}

\* one call; ret keeps what was called, in which environment, and the result
PathCall(op, home, jobID, mkdirOK) ==
    LET r == CASE op = "GetFloraGoHome"      -> GetFloraGoHome(home)
               [] op = "GetFloraGoTempDir"   -> GetFloraGoTempDir(home, mkdirOK)
               [] op = "GetFloraGoBinDir"    -> GetFloraGoBinDir(home)
               [] op = "GetFloraGoDataDir"   -> GetFloraGoDataDir(home)
               [] op = "GetFloraGoLogsDir"   -> GetFloraGoLogsDir(home)
               [] op = "GetCaddyfilePath"    -> GetCaddyfilePath(home)
               [] op = "GetFlowerAIVenvPath" -> GetFlowerAIVenvPath(home)
               [] op = "scriptPath"          -> ScriptPath(home, mkdirOK, now)
               [] op = "jobLogDir"           -> JobLogDir(home, jobID)
               [] OTHER                      -> GetDelveBinaryPath(home)
    IN  /\ ret' = [op |-> op, home |-> home, path |-> r.path, err |-> r.err]
        /\ UNCHANGED <<state, now, apiVars, agentVars, reqVars>>

PathNext ==
    \/ Tick
    \/ \E op \in PathOps, home \in Homes, jobID \in JobIDs,
          mkdirOK \in BOOLEAN : PathCall(op, home, jobID, mkdirOK)

PathSpec == Init /\ [][PathNext]_vars

---------------------------------------------------------------------------
(* LinSpec: the store called from several goroutines at once.  Every       *)
(* method takes m.mu for its whole body (Lock for the mutators, RLock for  *)
(* GetState); the statements it runs under the lock are separate steps.    *)
(* linear is the reference: each mutator applied whole, at the moment it   *)
(* gets the lock.                                                          *)

\* the calls a goroutine may make
StoreCalls ==
    { [op |-> "RegisterServerNode",
       node |-> NewServerNode("10.0.0.1", ServerAppIOAPIPort, FleetAPIPort,
                              ControlAPIPort, st)] :
         st \in {"starting", "ready"} }
    \cup { [op |-> "RegisterClientNode", node |-> NewClientNode(ip, st)] :
             ip \in {"10.0.0.2", "10.0.0.3"}, st \in {"starting", "ready"} }
    \cup { [op |-> "ClearState", node |-> NoNode],
           [op |-> "GetState", node |-> NoNode] }

Mutators == {"RegisterServerNode", "RegisterClientNode", "ClearState"}

\* RLock() taken without waiting for the writer
CanRLock_Always(m) == TRUE

\* sync.RWMutex: RLock() goes through when no writer holds the lock
CanRLock(m) == m.writer = 0

\* sync.RWMutex: Lock() goes through when nobody holds the lock
CanLock(m) == m.writer = 0 /\ m.readers = 0

\* what a mutator does to the store when it runs alone
Applied(lin, call, t) ==
    CASE call.op = "RegisterServerNode" ->
            RegisterServerNodeOp(lin, call.node, t).state
      [] call.op = "RegisterClientNode" ->
            RegisterClientNodeOp(lin, call.node, t).state
      [] OTHER -> ClearStateOp(lin)

\* a mutation has taken effect: every GetState call in progress may have
\* it before or after
Widen(gs, v) ==
    [g \in DOMAIN gs |->
        IF gs[g].op = "GetState" /\ gs[g].pc \notin {"none", "done"}
        THEN [gs[g] EXCEPT !.window = @ \cup {v}]
        ELSE gs[g]]

LinFrame == UNCHANGED <<ret, now, apiVars, agentVars, spinUps, waiter>>

\* InitializeStack(jobID, numNodes): one assignment under the lock
LinInitialize(n) ==
    /\ CanLock(mu)
    /\ linear = NoState
    /\ \A g \in DOMAIN goroutines : goroutines[g].pc = "none"
    /\ state' = InitializeStackOp(JobToken(1), n)
    /\ linear' = state'
    /\ UNCHANGED <<mu, goroutines>>
    /\ LinFrame

\* a goroutine enters a store method
StoreCall(g, call) ==
    /\ goroutines[g].pc = "none"
    /\ goroutines' = [goroutines EXCEPT
                        ![g] = [NoCall EXCEPT !.pc = "called",
                                              !.op = call.op,
                                              !.node = call.node,
                                              !.window = {linear}]]
    /\ UNCHANGED <<state, mu, linear>>
    /\ LinFrame

\* m.mu.Lock()
LinLock(g) ==
    /\ goroutines[g].pc = "called"
    /\ goroutines[g].op \in Mutators
    /\ CanLock(mu)
    /\ mu' = [mu EXCEPT !.writer = g]
    /\ linear' = Applied(linear, goroutines[g], now)
    /\ goroutines' = Widen([goroutines EXCEPT ![g].pc = "locked"], linear')
    /\ UNCHANGED state
    /\ LinFrame

\* Register*Node: the nil test and the assignment of the descriptor (and,
\* for the server, of Status)
LinStore(g) ==
    /\ goroutines[g].pc = "locked"
    /\ goroutines[g].op \in {"RegisterServerNode", "RegisterClientNode"}
    /\ IF state = NoState
       THEN /\ mu' = [mu EXCEPT !.writer = 0]
            /\ goroutines' = [goroutines EXCEPT ![g].pc = "done"]
            /\ UNCHANGED state
       ELSE /\ state' =
                  IF goroutines[g].op = "RegisterServerNode"
                  THEN [state EXCEPT !.ServerNode = goroutines[g].node,
                                     !.Status = "starting"]
                  ELSE [state EXCEPT
                          !.ClientNodes = PutClient(@, goroutines[g].node)]
            /\ goroutines' = [goroutines EXCEPT ![g].pc = "stored"]
            /\ UNCHANGED mu
    /\ UNCHANGED linear
    /\ LinFrame

\* Register*Node: if node.Status == "ready" { m.state.CompletedNodes++
LinCount(g) ==
    /\ goroutines[g].pc = "stored"
    /\ IF goroutines[g].node.Status = "ready"
       THEN /\ state' = [state EXCEPT !.CompletedNodes = @ + 1]
            /\ goroutines' = [goroutines EXCEPT ![g].pc = "counted"]
            /\ UNCHANGED mu
       ELSE /\ mu' = [mu EXCEPT !.writer = 0]
            /\ goroutines' = [goroutines EXCEPT ![g].pc = "done"]
            /\ UNCHANGED state
    /\ UNCHANGED linear
    /\ LinFrame

\* Register*Node: m.checkCompletion() } and the deferred Unlock
LinCheck(g) ==
    /\ goroutines[g].pc = "counted"
    /\ state' = checkCompletion(state, now)
    /\ mu' = [mu EXCEPT !.writer = 0]
    /\ goroutines' = [goroutines EXCEPT ![g].pc = "done"]
    /\ UNCHANGED linear
    /\ LinFrame

\* ClearState: m.state = nil and the deferred Unlock
LinClear(g) ==
    /\ goroutines[g].pc = "locked"
    /\ goroutines[g].op = "ClearState"
    /\ state' = ClearStateOp(state)
    /\ mu' = [mu EXCEPT !.writer = 0]
    /\ goroutines' = [goroutines EXCEPT ![g].pc = "done"]
    /\ UNCHANGED linear
    /\ LinFrame

\* GetState: m.mu.RLock()
LinRLock(g) ==
    /\ goroutines[g].pc = "called"
    /\ goroutines[g].op = "GetState"
    /\ CanRLock(mu)
    /\ mu' = [mu EXCEPT !.readers = @ + 1]
    /\ goroutines' = [goroutines EXCEPT ![g].pc = "rlocked"]
    /\ UNCHANGED <<state, linear>>
    /\ LinFrame

\* GetState: the nil test and stateCopy := &FlowerStackState{...}, the
\* scalar fields and an empty map
LinCopyFields(g) ==
    /\ goroutines[g].pc = "rlocked"
    /\ IF state = NoState
       THEN /\ mu' = [mu EXCEPT !.readers = @ - 1]
            /\ goroutines' = [goroutines EXCEPT ![g].pc = "done",
                                                ![g].snap = NoState]
       ELSE /\ goroutines' =
                  [goroutines EXCEPT
                      ![g].pc = "copied",
                      ![g].snap = [state EXCEPT !.ServerNode = NoNode,
                                                !.ClientNodes = EmptyMap]]
            /\ UNCHANGED mu
    /\ UNCHANGED <<state, linear>>
    /\ LinFrame

\* GetState: the copies of the server and of the clients, and the deferred
\* RUnlock; m.state is read again, and is nil only if the store was cleared
\* under the reader
LinCopyNodes(g) ==
    /\ goroutines[g].pc = "copied"
    /\ goroutines' =
          [goroutines EXCEPT
              ![g].pc = "done",
              ![g].snap = IF state = NoState
                          THEN [nil |-> "nil pointer dereference"]
                          ELSE [@ EXCEPT !.ServerNode = state.ServerNode,
                                         !.ClientNodes = state.ClientNodes]]
    /\ mu' = [mu EXCEPT !.readers = @ - 1]
    /\ UNCHANGED <<state, linear>>
    /\ LinFrame

LinNext ==
    \/ \E n \in 1..MaxNodes : LinInitialize(n)
    \/ \E g \in 1..MaxCalls, call \in StoreCalls : StoreCall(g, call)
    \/ \E g \in 1..MaxCalls : LinLock(g)
    \/ \E g \in 1..MaxCalls : LinStore(g)
    \/ \E g \in 1..MaxCalls : LinCount(g)
    \/ \E g \in 1..MaxCalls : LinCheck(g)
    \/ \E g \in 1..MaxCalls : LinClear(g)
    \/ \E g \in 1..MaxCalls : LinRLock(g)
    \/ \E g \in 1..MaxCalls : LinCopyFields(g)
    \/ \E g \in 1..MaxCalls : LinCopyNodes(g)

LinSpec == Init /\ [][LinNext]_vars

---------------------------------------------------------------------------
(* PollSpec: several callers blocked in GetServerInfo while other          *)
(* goroutines register nodes and clear the store.  A caller takes the read *)
(* lock for one check only and sleeps 500 ms without it; a clock step is   *)
(* one such sleep, and the clock moves only while no goroutine has a       *)
(* statement to run.  m.mu is a sync.RWMutex: a Lock() that waits for the  *)
(* readers keeps new readers out.                                          *)

\* the mutators the goroutines call
PollCalls ==
    { [op |-> "RegisterServerNode",
       node |-> NewServerNode("10.0.0.1", ServerAppIOAPIPort, FleetAPIPort,
                              ControlAPIPort, "ready")],
      [op |-> "RegisterClientNode",
       node |-> NewClientNode("10.0.0.2", "ready")],
      [op |-> "ClearState", node |-> NoNode] }

\* a goroutine in GetServerInfo or in a mutator of the store
PollCallOf(op, node, deadline) ==
    [pc |-> "called", op |-> op, node |-> node, deadline |-> deadline,
     wake |-> 0, err |-> Nil]

\* a Lock() has been called and waits for the readers to leave
WriterPending(gs) == \E g \in DOMAIN gs : gs[g].pc = "locking"

\* the goroutine has a statement to run now
Runnable(c) == c.pc \notin {"none", "sleep", "returned", "done"}

\* time.Sleep: the clock moves on while the callers sleep
PollTick ==
    /\ now < MaxPollTime
    /\ \A g \in DOMAIN goroutines : ~Runnable(goroutines[g])
    /\ now' = now + 1
    /\ UNCHANGED <<state, ret, apiVars, agentVars, reqVars>>

PollFrame == UNCHANGED <<ret, now, apiVars, agentVars, spinUps, waiter, linear>>

\* InitializeStack(jobID, numNodes) for a stack of one client, when the
\* store is empty
PollInitialize ==
    /\ state = NoState
    /\ CanLock(mu)
    /\ ~WriterPending(goroutines)
    /\ state' = InitializeStackOp(JobToken(1), 1)
    /\ UNCHANGED <<mu, goroutines>>
    /\ PollFrame

\* GetServerInfo(timeout): deadline := time.Now().Add(timeout)
PollCall(g, timeout) ==
    /\ goroutines[g].pc = "none"
    /\ now + timeout <= MaxPollTime
    /\ goroutines' = [goroutines EXCEPT
                        ![g] = [PollCallOf("GetServerInfo", NoNode,
                                           now + timeout)
                                  EXCEPT !.pc = "loop"]]
    /\ UNCHANGED <<state, mu>>
    /\ PollFrame

\* for time.Now().Before(deadline) { ... }
\* return nil, fmt.Errorf("timeout waiting for server node to be ready")
PollLoop(g) ==
    /\ goroutines[g].pc = "loop"
    /\ goroutines' =
          IF now < goroutines[g].deadline
          THEN [goroutines EXCEPT ![g].pc = "rlock"]
          ELSE [goroutines EXCEPT
                  ![g].pc = "returned",
                  ![g].err = "timeout waiting for server node to be ready"]
    /\ UNCHANGED <<state, mu>>
    /\ PollFrame

\* m.mu.RLock()
PollRLock(g) ==
    /\ goroutines[g].pc = "rlock"
    /\ CanRLock(mu)
    /\ ~WriterPending(goroutines)
    /\ mu' = [mu EXCEPT !.readers = @ + 1]
    /\ goroutines' = [goroutines EXCEPT ![g].pc = "check"]
    /\ UNCHANGED state
    /\ PollFrame

\* the check with the read lock kept over the sleep
PollCheck_SleepsLocked(g) ==
    /\ goroutines[g].pc = "check"
    /\ mu' = IF ServerReady(state) THEN [mu EXCEPT !.readers = @ - 1] ELSE mu
    /\ goroutines' =
          IF ServerReady(state)
          THEN [goroutines EXCEPT ![g].pc = "returned",
                                  ![g].node = state.ServerNode]
          ELSE [goroutines EXCEPT ![g].pc = "sleep", ![g].wake = now + 1]
    /\ UNCHANGED state
    /\ PollFrame

\* the check, m.mu.RUnlock(), and either the return of the descriptor or
\* the call of time.Sleep(500 * time.Millisecond)
PollCheck(g) ==
    /\ goroutines[g].pc = "check"
    /\ mu' = [mu EXCEPT !.readers = @ - 1]
    /\ goroutines' =
          IF ServerReady(state)
          THEN [goroutines EXCEPT ![g].pc = "returned",
                                  ![g].node = state.ServerNode]
          ELSE [goroutines EXCEPT ![g].pc = "sleep", ![g].wake = now + 1]
    /\ UNCHANGED state
    /\ PollFrame

\* time.Sleep returns
PollWake(g) ==
    /\ goroutines[g].pc = "sleep"
    /\ now >= goroutines[g].wake
    /\ goroutines' = [goroutines EXCEPT ![g].pc = "loop"]
    /\ UNCHANGED <<state, mu>>
    /\ PollFrame

\* a goroutine enters RegisterServerNode, RegisterClientNode or ClearState
PollMutate(g, call) ==
    /\ goroutines[g].pc = "none"
    /\ goroutines' = [goroutines EXCEPT
                        ![g] = PollCallOf(call.op, call.node, 0)]
    /\ UNCHANGED <<state, mu>>
    /\ PollFrame

\* m.mu.Lock(): the writer is announced, and new readers wait for it
PollLockBegin(g) ==
    /\ goroutines[g].pc = "called"
    /\ mu.writer = 0
    /\ ~WriterPending(goroutines)
    /\ goroutines' = [goroutines EXCEPT ![g].pc = "locking"]
    /\ UNCHANGED <<state, mu>>
    /\ PollFrame

\* m.mu.Lock(): the last reader has left
PollLockEnd(g) ==
    /\ goroutines[g].pc = "locking"
    /\ CanLock(mu)
    /\ mu' = [mu EXCEPT !.writer = g]
    /\ goroutines' = [goroutines EXCEPT ![g].pc = "locked"]
    /\ UNCHANGED state
    /\ PollFrame

\* the body of the mutator and its deferred Unlock
PollApply(g) ==
    /\ goroutines[g].pc = "locked"
    /\ state' = Applied(state, goroutines[g], now)
    /\ mu' = [mu EXCEPT !.writer = 0]
    /\ goroutines' = [goroutines EXCEPT ![g].pc = "done"]
    /\ PollFrame

PollStep(g) ==
    \/ PollLoop(g)
    \/ PollRLock(g)
    \/ PollCheck(g)
    \/ PollWake(g)
    \/ PollLockBegin(g)
    \/ PollLockEnd(g)
    \/ PollApply(g)

PollNext ==
    \/ PollTick
    \/ PollInitialize
    \/ \E g \in 1..MaxCalls, timeout \in Timeouts : PollCall(g, timeout)
    \/ \E g \in 1..MaxCalls, call \in PollCalls : PollMutate(g, call)
    \/ \E g \in 1..MaxCalls : PollStep(g)

PollSpec == Init /\ [][PollNext]_vars

\* the scheduler runs every goroutine that can run, and the clock goes on
PollLiveSpec ==
    /\ PollSpec
    /\ WF_vars(PollTick)
    /\ \A g \in 1..MaxCalls : WF_vars(PollStep(g))

---------------------------------------------------------------------------
(* ConcSpec: net/http serves every request in its own goroutine.  Several  *)
(* POST /api/spin requests arrive at a coordinator that has no stack; each *)
(* runs handleSpinUp, and the steps of different requests interleave.  A   *)
(* step ends where the handler gives up the store's lock or returns from   *)
(* the scheduler; handleSpinUp holds no lock of its own across them.       *)

\* the request has been answered with code
Answer(req, code) == [req EXCEPT !.pc = "done", !.code = code]

\* handleSpinUp up to and including the IsStackRunning test
SpinUpCheck(r, decodes, numNodes) ==
    /\ spinUps[r].pc = "none"
    /\ spinUps' =
          [spinUps EXCEPT ![r] =
              IF ~decodes \/ numNodes < 1
              THEN Answer(@, StatusBadRequest)
              ELSE IF IsStackRunning(state)
              THEN Answer(@, StatusConflict)
              ELSE [@ EXCEPT !.pc = "checked", !.numNodes = numNodes]]
    /\ UNCHANGED <<storeVars, apiVars, agentVars, waiter, linVars>>

\* handleSpinUp: the script is written and handed to sbatch; a failure
\* clears the store and answers 500
SpinUpSubmit(r, outcome) ==
    /\ spinUps[r].pc = "checked"
    /\ outcome \in {"submitted", "noisy"} => nextJob < MaxJobs
    /\ IF outcome \in {"tmpdir_error", "write_error", "sbatch_error"}
       THEN /\ state' = ClearStateOp(state)
            /\ spinUps' = [spinUps EXCEPT
                             ![r] = Answer(@, StatusInternalServerError)]
            /\ UNCHANGED nextJob
       ELSE /\ nextJob' = nextJob + 1
            /\ spinUps' =
                  [spinUps EXCEPT
                      ![r].pc = "submitted",
                      ![r].jobID = parseJobID(
                          SbatchOutput(nextJob + 1, outcome = "noisy"))]
            /\ UNCHANGED state
    /\ UNCHANGED <<ret, now, currentJobID, caddyfile, resp, agentVars, waiter, linVars>>

\* handleSpinUp: currentJobID = jobID (a package variable, written without
\* a lock)
SpinUpRecordJob(r) ==
    /\ spinUps[r].pc = "submitted"
    /\ currentJobID' = spinUps[r].jobID
    /\ spinUps' = [spinUps EXCEPT ![r].pc = "recorded"]
    /\ UNCHANGED <<storeVars, nextJob, caddyfile, resp, agentVars, waiter, linVars>>

\* handleSpinUp: InitializeStack and the 200 answer
SpinUpInitialize(r) ==
    /\ spinUps[r].pc = "recorded"
    /\ state' = InitializeStackOp(spinUps[r].jobID, spinUps[r].numNodes)
    /\ spinUps' = [spinUps EXCEPT ![r] = Answer(@, StatusOK)]
    /\ UNCHANGED <<ret, now, apiVars, agentVars, waiter, linVars>>

ConcNext ==
    \/ \E r \in 1..MaxRequests, decodes \in BOOLEAN, n \in 0..MaxNodes :
          SpinUpCheck(r, decodes, n)
    \/ \E r \in 1..MaxRequests, outcome \in SpinUpOutcomes :
          SpinUpSubmit(r, outcome)
    \/ \E r \in 1..MaxRequests : SpinUpRecordJob(r)
    \/ \E r \in 1..MaxRequests : SpinUpInitialize(r)

ConcSpec == Init /\ [][ConcNext]_vars

---------------------------------------------------------------------------
(* RaceSpec: POST /api/spin and DELETE /api/spin served at the same time.  *)
(* A goroutine serves one request after another.  The store's methods      *)
(* take and release m.mu inside themselves; the handlers' own accesses to  *)
(* the package variable currentJobID take no lock, so an assignment to it  *)
(* is an interval in which other goroutines run.                           *)

\* what a reader or a later writer may find after two assignments to the
\* string overlapped: a pointer from one and a length from the other
TornJobID == "torn"

\* the goroutine is inside an assignment to currentJobID
WritingJobID(r) == spinUps[r].pc \in {"recording", "resetting"}

\* the value an assignment leaves: torn only if another assignment overlaps
Assigned(r, value, torn) ==
    /\ torn => \E q \in DOMAIN spinUps : q # r /\ WritingJobID(q)
    /\ currentJobID' = IF torn THEN TornJobID ELSE value

\* the goroutine takes the next request
NextRequest(r) ==
    /\ spinUps[r].pc = "done"
    /\ spinUps' = [spinUps EXCEPT ![r] = NoRequest]
    /\ UNCHANGED <<storeVars, apiVars, agentVars, waiter, linVars>>

\* handleSpinUp: currentJobID = jobID begins
RecordJobBegin(r) ==
    /\ spinUps[r].pc = "submitted"
    /\ spinUps' = [spinUps EXCEPT ![r].pc = "recording"]
    /\ UNCHANGED <<storeVars, apiVars, agentVars, waiter, linVars>>

\* handleSpinUp: currentJobID = jobID is done
RecordJobEnd(r, torn) ==
    /\ spinUps[r].pc = "recording"
    /\ Assigned(r, spinUps[r].jobID, torn)
    /\ spinUps' = [spinUps EXCEPT ![r].pc = "recorded"]
    /\ UNCHANGED <<storeVars, nextJob, caddyfile, resp, agentVars, waiter, linVars>>

\* handleSpinDown: if currentJobID == "" { 404 }
SpinDownCheck(r) ==
    /\ spinUps[r].pc = "none"
    /\ spinUps' =
          [spinUps EXCEPT ![r] =
              IF SpinDownOutcome(currentJobID, TRUE) = "not_found"
              THEN Answer(@, StatusNotFound)
              ELSE [@ EXCEPT !.pc = "down_checked"]]
    /\ UNCHANGED <<storeVars, apiVars, agentVars, waiter, linVars>>

\* handleSpinDown: slurmClient.Scancel(currentJobID); an error answers 500
SpinDownCancel(r, cancels) ==
    /\ spinUps[r].pc = "down_checked"
    /\ spinUps' =
          [spinUps EXCEPT ![r] =
              IF cancels
              THEN [@ EXCEPT !.pc = "cancelled", !.jobID = currentJobID]
              ELSE Answer(@, StatusInternalServerError)]
    /\ UNCHANGED <<storeVars, apiVars, agentVars, waiter, linVars>>

\* handleSpinDown: stackManager.ClearState()
SpinDownClear(r) ==
    /\ spinUps[r].pc = "cancelled"
    /\ state' = ClearStateOp(state)
    /\ spinUps' = [spinUps EXCEPT ![r].pc = "cleared"]
    /\ UNCHANGED <<ret, now, apiVars, agentVars, waiter, linVars>>

\* handleSpinDown: currentJobID = "" begins
ResetJobBegin(r) ==
    /\ spinUps[r].pc = "cleared"
    /\ spinUps' = [spinUps EXCEPT ![r].pc = "resetting"]
    /\ UNCHANGED <<storeVars, apiVars, agentVars, waiter, linVars>>

\* handleSpinDown: currentJobID = "" is done, and the 200 answer
ResetJobEnd(r, torn) ==
    /\ spinUps[r].pc = "resetting"
    /\ Assigned(r, "", torn)
    /\ spinUps' = [spinUps EXCEPT ![r] = Answer(@, StatusOK)]
    /\ UNCHANGED <<storeVars, nextJob, caddyfile, resp, agentVars, waiter, linVars>>

RaceNext ==
    \/ \E r \in 1..MaxRequests : NextRequest(r)
    \/ \E r \in 1..MaxRequests, n \in 1..MaxNodes : SpinUpCheck(r, TRUE, n)
    \/ \E r \in 1..MaxRequests, outcome \in {"sbatch_error", "submitted"} :
          SpinUpSubmit(r, outcome)
    \/ \E r \in 1..MaxRequests : RecordJobBegin(r)
    \/ \E r \in 1..MaxRequests, torn \in BOOLEAN : RecordJobEnd(r, torn)
    \/ \E r \in 1..MaxRequests : SpinUpInitialize(r)
    \/ \E r \in 1..MaxRequests : SpinDownCheck(r)
    \/ \E r \in 1..MaxRequests, cancels \in BOOLEAN : SpinDownCancel(r, cancels)
    \/ \E r \in 1..MaxRequests : SpinDownClear(r)
    \/ \E r \in 1..MaxRequests : ResetJobBegin(r)
    \/ \E r \in 1..MaxRequests, torn \in BOOLEAN : ResetJobEnd(r, torn)

RaceSpec == Init /\ [][RaceNext]_vars

---------------------------------------------------------------------------
(* FileSpec: AddReverseProxy called from several goroutines at once (each  *)
(* registration handler makes its own CaddyInstaller).  A call reads the   *)
(* whole Caddyfile, decides, and writes the whole file back with           *)
(* os.WriteFile, which truncates the file and then writes; no lock and no  *)
(* rename is involved, so the steps of different calls interleave.  Of a   *)
(* goroutine's record, node holds the call's arguments and snap the lines  *)
(* it read.                                                                *)

\* the external ports of the concurrent calls: neither label contains the
\* other
FilePorts == {FleetAPIPort, ControlAPIPort}

\* AddReverseProxy(localPort, targetAddress, localPort) is called
ProxyCall(g, localPort, targetAddress) ==
    /\ caddyfile.exists
    /\ goroutines[g].pc = "none"
    /\ \A q \in DOMAIN goroutines :
          goroutines[q].pc # "none" => goroutines[q].node.localPort # localPort
    /\ goroutines' =
          [goroutines EXCEPT
              ![g] = [NoCall EXCEPT
                        !.pc = "called", !.op = "AddReverseProxy",
                        !.node = [localPort |-> localPort,
                                  targetAddress |-> targetAddress]]]
    /\ UNCHANGED <<storeVars, apiVars, agentVars, spinUps, waiter, mu, linear>>

\* the scanner loop and the search for the marker: a marker found ends the
\* call with nil
ProxyRead(g) ==
    /\ goroutines[g].pc = "called"
    /\ goroutines' =
          [goroutines EXCEPT
              ![g].snap = caddyfile.lines,
              ![g].pc = IF \E i \in 1..Len(caddyfile.lines) :
                              Contains(caddyfile.lines[i],
                                       ProxyLabel(goroutines[g].node.localPort))
                        THEN "done" ELSE "read"]
    /\ UNCHANGED <<storeVars, apiVars, agentVars, spinUps, waiter, mu, linear>>

\* WriteFile: os.WriteFile opens the file with O_TRUNC
ProxyTruncate(g) ==
    /\ goroutines[g].pc = "read"
    /\ caddyfile' = [caddyfile EXCEPT !.lines = << >>]
    /\ goroutines' = [goroutines EXCEPT ![g].pc = "truncated"]
    /\ UNCHANGED <<storeVars, currentJobID, nextJob, resp, agentVars, spinUps, waiter, mu, linear>>

\* WriteFile: os.WriteFile writes newContent, the lines read and the block
ProxyWrite(g) ==
    /\ goroutines[g].pc = "truncated"
    /\ caddyfile' =
          [caddyfile EXCEPT
              !.lines = goroutines[g].snap
                        \o ProxyConfig(goroutines[g].node.localPort,
                                       goroutines[g].node.targetAddress,
                                       goroutines[g].node.localPort)]
    /\ goroutines' = [goroutines EXCEPT ![g].pc = "done"]
    /\ UNCHANGED <<storeVars, currentJobID, nextJob, resp, agentVars, spinUps, waiter, mu, linear>>

FileNext ==
    \/ CreateDefaultCaddyfile
    \/ \E g \in 1..MaxCalls, p \in FilePorts, a \in RouteTargets :
          ProxyCall(g, p, a)
    \/ \E g \in 1..MaxCalls : ProxyRead(g)
    \/ \E g \in 1..MaxCalls : ProxyTruncate(g)
    \/ \E g \in 1..MaxCalls : ProxyWrite(g)

FileSpec == Init /\ [][FileNext]_vars

---------------------------------------------------------------------------
(* SysSpec: one successful spin-up, then the batch job starts one          *)
(* flowerserver agent and N flowerclient agents, which run against the     *)
(* coordinator.  An agent's HTTP request and the handler that serves it    *)
(* are one step.                                                           *)

\* the nodes of the allocation: the first runs the server agent, each of the
\* others a client agent
ServerAgentIP == "10.0.0.1"
ClientAgentIP(i) ==
    CASE i = 1 -> "10.0.0.2"
      [] i = 2 -> "10.0.0.3"
      [] OTHER -> "10.0.0.4"

\* an agent process: where it is, the daemons it has started, the
\* registration POSTs it has sent, its exit status (-1 while it runs), for a
\* client agent the server descriptor waitForServerNode returned, the steps
\* before supervision that have failed, and the exit status of the child
\* whose termination ended supervision (-1: none has)
NewAgent ==
    [pc |-> "start", daemons |-> {}, posts |-> 0, exit |-> -1,
     server |-> NoNode, failed |-> {}, child |-> -1]

\* a logger.Fatal that logs and returns
Fatal_GoesOn(agent) == agent

\* logger.Fatal: os.Exit(1)
Fatal(agent) == [agent EXCEPT !.pc = "exited", !.exit = 1]

\* a step before supervision has failed and the agent has not gone on
FailStep(agent, step) == Fatal([agent EXCEPT !.failed = @ \cup {step}])

\* the user's spin-up, answered with success
SysSpinUp(n) ==
    /\ nextJob = 0
    /\ HandleSpinUp(TRUE, n, "submitted")

\* the scheduler starts the job: srun on every allocated node
JobStarts ==
    /\ nextJob = 1
    /\ state # NoState
    /\ serverAgent.pc = "none"
    /\ serverAgent' = NewAgent
    /\ clientAgents' = [i \in 1..state.NumNodes |-> NewAgent]
    /\ UNCHANGED <<storeVars, apiVars, job, reqVars>>

\* flowerserver: superlinkCmd.Start()
ServerStartSuperlink(ok) ==
    /\ serverAgent.pc = "start"
    /\ serverAgent' =
          IF ok THEN [serverAgent EXCEPT !.pc = "link_up",
                                         !.daemons = @ \cup {"superlink"}]
          ELSE FailStep(serverAgent, "start superlink")
    /\ UNCHANGED <<storeVars, apiVars, clientAgents, job, reqVars>>

\* flowerserver: superexecCmd.Start(), after the 5 s sleep
ServerStartSuperexec(ok) ==
    /\ serverAgent.pc = "link_up"
    /\ serverAgent' =
          IF ok THEN [serverAgent EXCEPT !.pc = "daemons_up",
                                         !.daemons = @ \cup {"superexec"}]
          ELSE FailStep(serverAgent, "start superexec")
    /\ UNCHANGED <<storeVars, apiVars, clientAgents, job, reqVars>>

\* registerServerNode(apiServerURL, node): the POST and the handler's answer.
\* The payload carries the address and the three ports, not node.Status.
\* reachable: http.Post got through to the coordinator
registerServerNode(reachable, writable, reloads) ==
    IF reachable
    THEN PostServer(TRUE, ServerAgentIP, ServerAppIOAPIPort, FleetAPIPort,
                    ControlAPIPort, writable, reloads)
    ELSE UNCHANGED <<storeVars, apiVars>>

\* flowerserver: the first registerServerNode (node.Status = "starting");
\* an error is fatal
ServerRegister(reachable, writable, reloads) ==
    /\ serverAgent.pc = "daemons_up"
    /\ registerServerNode(reachable, writable, reloads)
    /\ serverAgent' =
          IF reachable /\ resp'.code = StatusOK
          THEN [serverAgent EXCEPT !.pc = "registered", !.posts = @ + 1]
          ELSE FailStep([serverAgent EXCEPT
                           !.posts = IF reachable THEN @ + 1 ELSE @],
                        "registration")
    /\ UNCHANGED <<clientAgents, job, reqVars>>

\* flowerserver: the second registerServerNode (node.Status = "ready"), after
\* the 2 s sleep; an error is only logged
ServerAnnounceReady(reachable, writable, reloads) ==
    /\ serverAgent.pc = "registered"
    /\ registerServerNode(reachable, writable, reloads)
    /\ serverAgent' = [serverAgent EXCEPT
                         !.pc = "supervising",
                         !.posts = IF reachable THEN @ + 1 ELSE @,
                         !.failed = IF reachable /\ resp'.code = StatusOK
                                    THEN @ ELSE @ \cup {"registration"}]
    /\ UNCHANGED <<clientAgents, job, reqVars>>

\* flowerserver: exitErr := <-done; a child that exited with an error is fatal
ServerChildExits(status) ==
    /\ serverAgent.pc = "supervising"
    /\ serverAgent' =
          IF status # 0 THEN Fatal([serverAgent EXCEPT !.child = status])
          ELSE [serverAgent EXCEPT !.pc = "exited", !.exit = 0,
                                   !.child = status]
    /\ UNCHANGED <<storeVars, apiVars, clientAgents, job, reqVars>>

\* flowerclient: one round of waitForServerNode: GET /api/flower/server;
\* a 200 with a ready descriptor ends the wait, anything else is followed by
\* a 2 s sleep and another round
ClientPollServer(i, reachable) ==
    /\ i \in DOMAIN clientAgents
    /\ clientAgents[i].pc = "start"
    /\ IF reachable THEN GetServer ELSE UNCHANGED <<storeVars, apiVars>>
    /\ clientAgents' =
          IF /\ reachable
             /\ resp'.code = StatusOK
             /\ resp'.node.Status = "ready"
          THEN [clientAgents EXCEPT ![i].pc = "server_ready",
                                    ![i].server = resp'.node]
          ELSE clientAgents
    /\ UNCHANGED <<serverAgent, job, reqVars>>

\* flowerclient: waitForServerNode's 300 s deadline passes: fatal
ClientWaitTimeout(i) ==
    /\ i \in DOMAIN clientAgents
    /\ clientAgents[i].pc = "start"
    /\ clientAgents' = [clientAgents EXCEPT
                          ![i] = FailStep(@, "wait for server")]
    /\ UNCHANGED <<storeVars, apiVars, serverAgent, job, reqVars>>

\* flowerclient: supernodeCmd.Start()
ClientStartSupernode(i, ok) ==
    /\ i \in DOMAIN clientAgents
    /\ clientAgents[i].pc = "server_ready"
    /\ clientAgents' =
          IF ok THEN [clientAgents EXCEPT ![i].pc = "supernode_up",
                                          ![i].daemons = @ \cup {"supernode"}]
          ELSE [clientAgents EXCEPT ![i] = FailStep(@, "start supernode")]
    /\ UNCHANGED <<storeVars, apiVars, serverAgent, job, reqVars>>

\* flowerclient: superexecCmd.Start(), after the 5 s sleep
ClientStartSuperexec(i, ok) ==
    /\ i \in DOMAIN clientAgents
    /\ clientAgents[i].pc = "supernode_up"
    /\ clientAgents' =
          IF ok THEN [clientAgents EXCEPT ![i].pc = "daemons_up",
                                          ![i].daemons = @ \cup {"superexec"}]
          ELSE [clientAgents EXCEPT ![i] = FailStep(@, "start superexec")]
    /\ UNCHANGED <<storeVars, apiVars, serverAgent, job, reqVars>>

\* registerClientNode(apiServerURL, node): prints "Would register client
\* node" and returns nil; nothing is sent
registerClientNode(agent) == agent

\* flowerclient: the first registerClientNode (node.Status = "starting")
ClientRegister(i) ==
    /\ i \in DOMAIN clientAgents
    /\ clientAgents[i].pc = "daemons_up"
    /\ clientAgents' =
          [clientAgents EXCEPT
              ![i] = [registerClientNode(@) EXCEPT !.pc = "registered"]]
    /\ UNCHANGED <<storeVars, apiVars, serverAgent, job, reqVars>>

\* flowerclient: the second registerClientNode (node.Status = "ready")
ClientAnnounceReady(i) ==
    /\ i \in DOMAIN clientAgents
    /\ clientAgents[i].pc = "registered"
    /\ clientAgents' =
          [clientAgents EXCEPT
              ![i] = [registerClientNode(@) EXCEPT !.pc = "supervising"]]
    /\ UNCHANGED <<storeVars, apiVars, serverAgent, job, reqVars>>

\* flowerclient: exitErr := <-done
ClientChildExits(i, status) ==
    /\ i \in DOMAIN clientAgents
    /\ clientAgents[i].pc = "supervising"
    /\ clientAgents' =
          [clientAgents EXCEPT
              ![i] = IF status # 0 THEN Fatal([@ EXCEPT !.child = status])
                     ELSE [@ EXCEPT !.pc = "exited", !.exit = 0,
                                    !.child = status]]
    /\ UNCHANGED <<storeVars, apiVars, serverAgent, job, reqVars>>

SysNext ==
    \/ CreateDefaultCaddyfile
    \/ \E n \in 1..MaxNodes : SysSpinUp(n)
    \/ JobStarts
    \/ \E ok \in BOOLEAN : ServerStartSuperlink(ok)
    \/ \E ok \in BOOLEAN : ServerStartSuperexec(ok)
    \/ \E reachable, reloads \in BOOLEAN :
          ServerRegister(reachable, TRUE, reloads)
    \/ \E reachable, reloads \in BOOLEAN :
          ServerAnnounceReady(reachable, TRUE, reloads)
    \/ \E status \in {0, 1} : ServerChildExits(status)
    \/ \E i \in 1..MaxNodes, reachable \in BOOLEAN :
          ClientPollServer(i, reachable)
    \/ \E i \in 1..MaxNodes : ClientWaitTimeout(i)
    \/ \E i \in 1..MaxNodes, ok \in BOOLEAN : ClientStartSupernode(i, ok)
    \/ \E i \in 1..MaxNodes, ok \in BOOLEAN : ClientStartSuperexec(i, ok)
    \/ \E i \in 1..MaxNodes : ClientRegister(i)
    \/ \E i \in 1..MaxNodes : ClientAnnounceReady(i)
    \/ \E i \in 1..MaxNodes, status \in {0, 1} : ClientChildExits(i, status)

SysSpec == Init /\ [][SysNext]_vars

\* SysLiveSpec: the same system where the coordinator stays reachable, no
\* daemon fails to start or exits, and every agent step that stays enabled
\* is eventually taken
SysLiveNext ==
    \/ CreateDefaultCaddyfile
    \/ \E n \in 1..MaxNodes : SysSpinUp(n)
    \/ JobStarts
    \/ ServerStartSuperlink(TRUE)
    \/ ServerStartSuperexec(TRUE)
    \/ \E reloads \in BOOLEAN : ServerRegister(TRUE, TRUE, reloads)
    \/ \E reloads \in BOOLEAN : ServerAnnounceReady(TRUE, TRUE, reloads)
    \/ \E i \in 1..MaxNodes : ClientPollServer(i, TRUE)
    \/ \E i \in 1..MaxNodes : ClientStartSupernode(i, TRUE)
    \/ \E i \in 1..MaxNodes : ClientStartSuperexec(i, TRUE)
    \/ \E i \in 1..MaxNodes : ClientRegister(i)
    \/ \E i \in 1..MaxNodes : ClientAnnounceReady(i)

SysFairness ==
    /\ WF_vars(JobStarts)
    /\ WF_vars(ServerStartSuperlink(TRUE))
    /\ WF_vars(ServerStartSuperexec(TRUE))
    /\ WF_vars(\E reloads \in BOOLEAN : ServerRegister(TRUE, TRUE, reloads))
    /\ WF_vars(\E reloads \in BOOLEAN :
                  ServerAnnounceReady(TRUE, TRUE, reloads))
    /\ \A i \in 1..MaxNodes :
          /\ WF_vars(ClientPollServer(i, TRUE))
          /\ WF_vars(ClientStartSupernode(i, TRUE))
          /\ WF_vars(ClientStartSuperexec(i, TRUE))
          /\ WF_vars(ClientRegister(i))
          /\ WF_vars(ClientAnnounceReady(i))

SysLiveSpec == Init /\ [][SysLiveNext]_vars /\ SysFairness

---------------------------------------------------------------------------
(* JobsSpec: spin-ups that follow one another while the stack is pending.  *)
(* handleSpinUp refuses only a starting or running stack, so a spin-up on  *)
(* a pending stack submits another job and replaces the stack; the earlier *)
(* job is not cancelled and its server agent goes on to register.          *)

\* the server agent of the k-th submitted job posts its registration (either
\* of its two): the payload names the address and the ports, not the job
AgentPostServer(k, writable, reloads) ==
    /\ k \in 1..nextJob
    /\ HandlePostServer(TRUE, "10.0.0.1", ServerAppIOAPIPort, FleetAPIPort,
                        ControlAPIPort, writable, reloads)

\* a registration arrives at POST /api/flower/client in the name of a node of
\* the k-th submitted job
AgentPostClient(k, ip) ==
    /\ k \in 1..nextJob
    /\ HandlePostClient(TRUE, ip)

JobsNext ==
    \/ CreateDefaultCaddyfile
    \/ \E n \in 1..MaxNodes : HandleSpinUp(TRUE, n, "submitted")
    \/ \E k \in 1..MaxJobs, writable, reloads \in BOOLEAN :
          AgentPostServer(k, writable, reloads)
    \/ \E k \in 1..MaxJobs, ip \in ClientIPs : AgentPostClient(k, ip)

JobsSpec == Init /\ [][JobsNext]_vars

---------------------------------------------------------------------------
(* LifeSpec: stacks that follow one another.  Each spin-up submits a job,  *)
(* the scheduler places the job's server agent on a node of its choice,    *)
(* the agent registers with the control port it always uses, and a         *)
(* tear-down cancels the job and clears the store.  The Caddyfile outlives *)
(* the stacks.                                                             *)

\* the node the scheduler gives the server agent of the k-th job
JobServerIP(k) == IF k = 1 THEN "10.0.0.1" ELSE "10.0.0.2"

\* the server agent of the current job posts its registration
LifePostServer(writable, reloads) ==
    /\ nextJob >= 1
    /\ currentJobID = JobToken(nextJob)
    /\ HandlePostServer(TRUE, JobServerIP(nextJob), ServerAppIOAPIPort,
                        FleetAPIPort, ControlAPIPort, writable, reloads)

LifeNext ==
    \/ CreateDefaultCaddyfile
    \/ \E n \in 1..MaxNodes : HandleSpinUp(TRUE, n, "submitted")
    \/ \E cancels \in BOOLEAN : HandleSpinDown(cancels)
    \/ \E writable, reloads \in BOOLEAN : LifePostServer(writable, reloads)
    \/ \E ip \in ClientIPs : HandlePostClient(TRUE, ip)

LifeSpec == Init /\ [][LifeNext]_vars

---------------------------------------------------------------------------
(* AliasSpec: a caller that holds a server descriptor while the store is   *)
(* changed.  Descriptors are Go pointers: RegisterServerNode stores the    *)
(* pointer it is given, GetServerInfo returns the stored pointer, GetState *)
(* returns copies, UpdateServerNodeStatus writes through the stored        *)
(* pointer.  The holder's record says how it got its descriptor (how),     *)
(* the descriptor's content then (got) and now (node), and whether it is   *)
(* the object the store points to (shared).                                *)

Holder(how, node, shared) ==
    [pc |-> "holding", how |-> how, got |-> node, node |-> node,
     shared |-> shared]

\* ret names the step that was taken
AliasFrame(op) ==
    /\ ret' = [op |-> op, err |-> Nil]
    /\ UNCHANGED <<now, apiVars, agentVars, spinUps, linVars>>

\* the store's pointer is replaced or dropped: the holder's object stays as
\* it is and is no longer the store's
Detached(h) == IF h.pc = "holding" THEN [h EXCEPT !.shared = FALSE] ELSE h

AliasInitialize(n) ==
    /\ state = NoState
    /\ state' = InitializeStackOp(JobToken(1), n)
    /\ waiter' = Detached(waiter)
    /\ AliasFrame("InitializeStack")

\* RegisterServerNode(node) by a caller that keeps the pointer it passed
AliasRegisterAndKeep(node) ==
    /\ CanCount(state)
    /\ state # NoState
    /\ state' = RegisterServerNodeOp(state, node, now).state
    /\ waiter' = Holder("RegisterServerNode", node, TRUE)
    /\ AliasFrame("RegisterServerNode, pointer kept")

\* RegisterServerNode(node) by another caller
AliasRegister(node) ==
    /\ CanCount(state)
    /\ state # NoState
    /\ state' = RegisterServerNodeOp(state, node, now).state
    /\ waiter' = Detached(waiter)
    /\ AliasFrame("RegisterServerNode")

\* GetServerInfo returns: node := m.state.ServerNode; return node, nil
AliasGetServerInfo ==
    /\ GetServerInfoOp(state).err = Nil
    /\ waiter' = Holder("GetServerInfo", GetServerInfoOp(state).node, TRUE)
    /\ UNCHANGED state
    /\ AliasFrame("GetServerInfo")

\* GetState returns: serverCopy := *m.state.ServerNode
AliasGetState ==
    /\ state # NoState
    /\ IF state = NoState THEN FALSE ELSE state.ServerNode # NoNode
    /\ waiter' = Holder("GetState", GetState(state).ServerNode, FALSE)
    /\ UNCHANGED state
    /\ AliasFrame("GetState")

\* UpdateServerNodeStatus: m.state.ServerNode.Status = status, through the
\* pointer
AliasUpdateServerNodeStatus(status) ==
    /\ CanCount(state)
    /\ UpdateServerNodeStatusOp(state, "", status, now).err = Nil
    /\ state' = UpdateServerNodeStatusOp(state, "", status, now).state
    /\ waiter' = IF waiter.pc = "holding"
                 THEN IF waiter.shared
                      THEN [waiter EXCEPT !.node = state'.ServerNode]
                      ELSE waiter
                 ELSE waiter
    /\ AliasFrame("UpdateServerNodeStatus")

AliasClearState ==
    /\ state # NoState
    /\ state' = ClearStateOp(state)
    /\ waiter' = Detached(waiter)
    /\ AliasFrame("ClearState")

\* the holder assigns to the Status of the descriptor it holds
HolderSetsStatus(status) ==
    /\ waiter.pc = "holding"
    /\ waiter.node.Status # status
    /\ waiter' = [waiter EXCEPT !.node.Status = status, !.got.Status = status]
    /\ state' = IF waiter.shared
                THEN [state EXCEPT !.ServerNode.Status = status]
                ELSE state
    /\ AliasFrame("node.Status = status")

AliasNext ==
    \/ \E n \in 1..MaxNodes : AliasInitialize(n)
    \/ \E node \in ServerNodes : AliasRegisterAndKeep(node)
    \/ \E node \in ServerNodes : AliasRegister(node)
    \/ AliasGetServerInfo
    \/ AliasGetState
    \/ \E status \in ServerStatus : AliasUpdateServerNodeStatus(status)
    \/ AliasClearState
    \/ \E status \in ServerStatus : HolderSetsStatus(status)

AliasSpec == Init /\ [][AliasNext]_vars

---------------------------------------------------------------------------
(* ScriptSpec: createFlowerStackScript, the scheduler that reads the       *)
(* #SBATCH header of its script and allocates the nodes, and the shell     *)
(* that runs the script on the first of them.  A statement of the script   *)
(* is a record: its kind, its operands a, b and c, and whether it ends in  *)
(* '&'.                                                                    *)

\* the values a spin request may carry for an optional field
Partitions == {"", "gpu"}
Memories   == {"", "4G"}
TimeLimits == {"", "01:00:00"}

Stmt(kind, a, b) == [kind |-> kind, a |-> a, b |-> b, c |-> "", bg |-> FALSE]

\* srun --nodes=1 --ntasks=1 --nodelist=<nodelist> $FLORAGO_BIN <verb> ...
\*   > $JOB_LOG_DIR/<log> 2>&1 &
Srun(nodelist, verb, log, bg) ==
    [kind |-> "srun", a |-> nodelist, b |-> verb, c |-> log, bg |-> bg]

FirstNode  == "$(scontrol show hostname $SLURM_JOB_NODELIST | head -n 1)"
OtherNodes == "$(scontrol show hostname $SLURM_JOB_NODELIST | tail -n +2)"

\* the directive of an optional field, written only for a value given
Optional(opt, value) ==
    IF value # "" THEN << Stmt("#SBATCH", opt, value) >> ELSE << >>

\* the script asking for the clients' nodes only
createFlowerStackScript_ClientNodesOnly(req, apiHost, apiPort) ==
    LET totalNodes == req.NumNodes
        logsDir == GetFloraGoLogsDir("/home/alice").path
    IN  << Stmt("#SBATCH", "--job-name", "flower-stack"),
           Stmt("#SBATCH", "--nodes", totalNodes),
           Stmt("#SBATCH", "--ntasks-per-node", 1) >>
        \o Optional("--partition", req.Partition)
        \o Optional("--mem", req.Memory)
        \o Optional("--time", req.TimeLimit)
        \o << Stmt("#SBATCH", "--output", logsDir \o "/flower-stack-%j.out"),
              Stmt("#SBATCH", "--error", logsDir \o "/flower-stack-%j.err"),
              Stmt("export", "FLORAGO_API_SERVER",
                   "http://" \o apiHost \o ":" \o apiPort),
              Stmt("assign", "FLORAGO_BIN", "$HOME/florago-amd64"),
              Stmt("assign", "JOB_LOG_DIR", logsDir \o "/${SLURM_JOB_ID}"),
              Stmt("mkdir", "-p", "$JOB_LOG_DIR"),
              Stmt("echo", "Job logs will be written to: $JOB_LOG_DIR", ""),
              Srun(FirstNode, "flowerserver", "flowerserver.log", TRUE),
              Stmt("if", "$SLURM_NNODES -gt 1", ""),
              Stmt("assign", "CLIENT_NODES", OtherNodes),
              Stmt("assign", "CLIENT_INDEX", "0"),
              Stmt("for", "node", "$CLIENT_NODES"),
              Srun("$node", "flowerclient",
                   "flowerclient-${CLIENT_INDEX}.log", TRUE),
              Stmt("assign", "CLIENT_INDEX", "$((CLIENT_INDEX + 1))"),
              Stmt("done", "", ""),
              Stmt("fi", "", ""),
              Stmt("wait", "", "") >>

\* createFlowerStackScript(req, apiHost, apiPort): the header for
\* req.NumNodes + 1 nodes of one task each, the server's srun, the loop of
\* the clients' sruns, and wait
createFlowerStackScript(req, apiHost, apiPort) ==
    LET totalNodes == req.NumNodes + 1
        logsDir == GetFloraGoLogsDir("/home/alice").path
    IN  << Stmt("#SBATCH", "--job-name", "flower-stack"),
           Stmt("#SBATCH", "--nodes", totalNodes),
           Stmt("#SBATCH", "--ntasks-per-node", 1) >>
        \o Optional("--partition", req.Partition)
        \o Optional("--mem", req.Memory)
        \o Optional("--time", req.TimeLimit)
        \o << Stmt("#SBATCH", "--output", logsDir \o "/flower-stack-%j.out"),
              Stmt("#SBATCH", "--error", logsDir \o "/flower-stack-%j.err"),
              Stmt("export", "FLORAGO_API_SERVER",
                   "http://" \o apiHost \o ":" \o apiPort),
              Stmt("assign", "FLORAGO_BIN", "$HOME/florago-amd64"),
              Stmt("assign", "JOB_LOG_DIR", logsDir \o "/${SLURM_JOB_ID}"),
              Stmt("mkdir", "-p", "$JOB_LOG_DIR"),
              Stmt("echo", "Job logs will be written to: $JOB_LOG_DIR", ""),
              Srun(FirstNode, "flowerserver", "flowerserver.log", TRUE),
              Stmt("if", "$SLURM_NNODES -gt 1", ""),
              Stmt("assign", "CLIENT_NODES", OtherNodes),
              Stmt("assign", "CLIENT_INDEX", "0"),
              Stmt("for", "node", "$CLIENT_NODES"),
              Srun("$node", "flowerclient",
                   "flowerclient-${CLIENT_INDEX}.log", TRUE),
              Stmt("assign", "CLIENT_INDEX", "$((CLIENT_INDEX + 1))"),
              Stmt("done", "", ""),
              Stmt("fi", "", ""),
              Stmt("wait", "", "") >>

\* the value of a directive of the header: the last one given counts
Directive(script, opt, default) ==
    LET given == { i \in 1..Len(script) :
                     script[i].kind = "#SBATCH" /\ script[i].a = opt }
    IN  IF given = {} THEN default
        ELSE script[CHOOSE i \in given : \A j \in given : j <= i].b

\* the host names of an allocation of n nodes
Hostnames(n) == [i \in 1..n |-> "node0" \o ToString(i)]

\* the first statement of the kind after position at
NextOf(script, kind, at) ==
    CHOOSE i \in (at + 1)..Len(script) :
        /\ script[i].kind = kind
        /\ \A j \in (at + 1)..(i - 1) : script[j].kind # kind

\* the last statement of the kind before position at
LastOf(script, kind, at) ==
    CHOOSE i \in 1..(at - 1) :
        /\ script[i].kind = kind
        /\ \A j \in (i + 1)..(at - 1) : script[j].kind # kind

ScriptFrame == UNCHANGED <<storeVars, apiVars, serverAgent, clientAgents, reqVars>>

\* handleSpinUp: the script of a valid request, handed to sbatch
SubmitScript(n, partition, memory, timeLimit) ==
    LET req == [NumNodes |-> n, Partition |-> partition, Memory |-> memory,
                TimeLimit |-> timeLimit]
    IN  /\ job.pc = "none"
        /\ job' = [NoJob EXCEPT
                     !.pc = "submitted",
                     !.req = req,
                     !.script = createFlowerStackScript(req, "login1",
                                                        "8080")]
        /\ ScriptFrame

\* the scheduler grants the nodes the header asks for and starts the script
\* on the first of them
Allocate ==
    /\ job.pc = "submitted"
    /\ job' = [job EXCEPT
                 !.pc = "running",
                 !.hosts = Hostnames(Directive(job.script, "--nodes", 1)),
                 !.at = 1]
    /\ ScriptFrame

\* the node a --nodelist operand names
Nodelist(j, operand) ==
    IF operand = FirstNode THEN j.hosts[1]
    ELSE IF operand = "$node" THEN j.node
    ELSE operand

\* the shell runs the statement it is at
Execute(j) ==
    LET st == j.script[j.at]
        on == [j EXCEPT !.at = @ + 1]
    IN  CASE st.kind = "srun" ->
               LET launch == [verb |-> st.b, node |-> Nodelist(j, st.a),
                              log |-> st.c, bg |-> st.bg, at |-> j.at]
               IN  IF st.bg
                   THEN [on EXCEPT !.launched = Append(@, launch)]
                   ELSE [j EXCEPT !.pc = "blocked",
                                  !.launched = Append(@, launch)]
          [] st.kind = "if" ->
               IF Len(j.hosts) > 1 THEN on
               ELSE [j EXCEPT !.at = NextOf(j.script, "fi", j.at) + 1]
          [] st.kind = "assign" /\ st.a = "CLIENT_NODES" ->
               [on EXCEPT !.clients = Tail(j.hosts)]
          [] st.kind = "assign" /\ st.a = "CLIENT_INDEX" ->
               [on EXCEPT !.index = IF st.b = "0" THEN 0 ELSE @ + 1]
          [] st.kind = "for" ->
               IF j.clients = << >>
               THEN [j EXCEPT !.at = NextOf(j.script, "done", j.at) + 1]
               ELSE [on EXCEPT !.node = Head(j.clients),
                               !.rest = Tail(j.clients)]
          [] st.kind = "done" ->
               IF j.rest = << >> THEN on
               ELSE [j EXCEPT !.at = LastOf(j.script, "for", j.at) + 1,
                              !.node = Head(j.rest),
                              !.rest = Tail(j.rest)]
          [] st.kind = "wait" -> [j EXCEPT !.pc = "waiting"]
          [] OTHER -> on

ShellStep ==
    /\ job.pc = "running"
    /\ job.at <= Len(job.script)
    /\ job' = Execute(job)
    /\ ScriptFrame

ScriptNext ==
    \/ \E n \in 1..MaxNodes, partition \in Partitions, memory \in Memories,
          timeLimit \in TimeLimits :
          SubmitScript(n, partition, memory, timeLimit)
    \/ Allocate
    \/ ShellStep

ScriptSpec == Init /\ [][ScriptNext]_vars

---------------------------------------------------------------------------
(* Claims about the stack store, checked under Spec. *)

\* the descriptors of s that are ready: the server if ready, plus the ready clients
ReadyDescriptors(s) ==
    (IF ServerReady(s) THEN 1 ELSE 0)
    + Cardinality({id \in DOMAIN s.ClientNodes :
                      s.ClientNodes[id].Status = "ready"})

\* C1: a running stack has a ready server, exactly expected_clients client
\* descriptors, all of them ready, and ready_count = expected_total.
C1_RunningMeansAllReady ==
    (state # NoState /\ state.Status = "running") =>
        /\ state.ServerNode # NoNode
        /\ state.ServerNode.Status = "ready"
        /\ \A id \in DOMAIN state.ClientNodes :
              state.ClientNodes[id].Status = "ready"
        /\ Cardinality(DOMAIN state.ClientNodes) = state.NumNodes
        /\ state.CompletedNodes = state.ExpectedNodes

\* C3: ready_count (CompletedNodes) equals the number of descriptors that are
\* ready, in every reachable state of the store.
C3_ReadyCountIsReadyDescriptors ==
    state # NoState => state.CompletedNodes = ReadyDescriptors(state)

\* C8: registering a ready client under a node_id whose stored descriptor is
\* already ready does not increment ready_count again.
C8_ReadyClientCountedOnce ==
    [][ \A node \in ClientNodes :
          ( /\ state # NoState
            /\ node.Status = "ready"
            /\ node.NodeID \in DOMAIN state.ClientNodes
            /\ state.ClientNodes[node.NodeID].Status = "ready"
            /\ RegisterClientNode(node) )
          => state'.CompletedNodes = state.CompletedNodes ]_vars

\* C9: a stack enters running at most once in its lifetime: a stack that was
\* running before (its completion_time is set, which only the transition into
\* running does) and is not running now does not become running again.
C9_RunningEnteredOnce ==
    [][ ( /\ state # NoState
          /\ state.CompletionTime # ZeroTime
          /\ state.Status # "running"
          /\ state' # NoState )
        => state'.Status # "running" ]_vars

\* C10: a pending stack has no server descriptor, no client descriptor and
\* ready_count = 0.
C10_PendingMeansEmpty ==
    (state # NoState /\ state.Status = "pending") =>
        /\ state.ServerNode = NoNode
        /\ DOMAIN state.ClientNodes = {}
        /\ state.CompletedNodes = 0

---------------------------------------------------------------------------
(* OrderSpec: a freshly initialized stack receives first-time registrations *)
(* only, each with the ready descriptor the registration handlers build:   *)
(* one server registration and one registration per distinct client, up to *)
(* the expected number of clients, in any order.                           *)

OrderInitialize(n) ==
    /\ state = NoState
    /\ InitializeStack(JobToken(1), n)

OrderRegisterServer(ip) ==
    /\ state # NoState
    /\ state.ServerNode = NoNode
    /\ RegisterServerNode(
          NewServerNode(ip, ServerAppIOAPIPort, FleetAPIPort,
                        ControlAPIPort, "ready"))

OrderRegisterClient(ip) ==
    /\ state # NoState
    /\ ClientNodeID(ip) \notin DOMAIN state.ClientNodes
    /\ Cardinality(DOMAIN state.ClientNodes) < state.NumNodes
    /\ RegisterClientNode(NewClientNode(ip, "ready"))

OrderNext ==
    \/ Tick
    \/ \E n \in 1..MaxNodes : OrderInitialize(n)
    \/ \E ip \in IPs : OrderRegisterServer(ip)
    \/ \E ip \in ClientIPs : OrderRegisterClient(ip)

OrderSpec == Init /\ [][OrderNext]_vars

\* the registrations a stack has received under OrderSpec
Registered(s) ==
    (IF s.ServerNode = NoNode THEN 0 ELSE 1) + Cardinality(DOMAIN s.ClientNodes)

\* C6: whatever the arrival order of the server and the N distinct clients,
\* the stack is not running after a strict prefix of the N+1 registrations and
\* is running with completed_nodes = N+1 after the last one.
C6_OrderDoesNotMatter ==
    state # NoState =>
        /\ Registered(state) < state.NumNodes + 1 => state.Status # "running"
        /\ Registered(state) = state.NumNodes + 1 =>
              /\ state.Status = "running"
              /\ state.CompletedNodes = state.NumNodes + 1

\* C6 witness: the server registered last, after all N clients, and that
\* registration completed the stack.
C6_ServerLastCompletes ==
    /\ state # NoState
    /\ ret.op = "RegisterServerNode"
    /\ Cardinality(DOMAIN state.ClientNodes) = state.NumNodes
    /\ state.NumNodes = MaxNodes
    /\ state.Status = "running"

---------------------------------------------------------------------------
(* Claims about the control API, checked under ApiSpec. *)

\* C2: a valid POST /api/spin issued while a stack exists in pending, starting
\* or running is answered 409 with the existing stack's snapshot, submits no
\* batch job and leaves the stack and the recorded job id unchanged.
C2_SpinUpWhileStackExistsConflicts ==
    [][ \A n \in 1..MaxNodes, outcome \in SpinUpOutcomes :
          ( /\ state # NoState
            /\ state.Status \in {"pending", "starting", "running"}
            /\ state.JobID # "" /\ currentJobID = state.JobID
            /\ HandleSpinUp(TRUE, n, outcome) )
          => /\ resp'.code = StatusConflict
             /\ resp'.state = state
             /\ state' = state
             /\ currentJobID' = currentJobID
             /\ nextJob' = nextJob ]_vars

\* C5: GET /api/spin always answers success with the current snapshot, with
\* state null when no stack exists.
C5_SpinStatusAlwaysAnswers ==
    resp.op = "GET /api/spin" =>
        /\ resp.code = StatusOK
        /\ resp.success
        /\ resp.state = state

---------------------------------------------------------------------------
(* Claims about the agents and the coordinator together. *)

\* C4: after a successful spin-up with N clients, once the batch job has
\* started one server agent and N client agents, with the coordinator
\* reachable, no daemon failing and fair scheduling, the stack eventually has
\* status running with N client descriptors and completed_nodes = N + 1.
\* Checked under SysLiveSpec.
C4_StackEventuallyRunning ==
    (serverAgent.pc = "start") ~>
        (/\ state # NoState
         /\ state.Status = "running"
         /\ Cardinality(DOMAIN state.ClientNodes) = state.NumNodes
         /\ state.CompletedNodes = state.NumNodes + 1)

\* C7: a client agent has started no daemon unless waitForServerNode gave it
\* a server descriptor whose status is ready, and a client agent that has
\* started both daemons and gone through its registration has sent exactly
\* one registration POST.  Checked under SysSpec.
C7_ClientStartsAfterReadyAndPostsOnce ==
    \A i \in DOMAIN clientAgents :
        /\ clientAgents[i].daemons # {} =>
              /\ clientAgents[i].server # NoNode
              /\ clientAgents[i].server.Status = "ready"
        /\ clientAgents[i].pc = "supervising" => clientAgents[i].posts = 1

---------------------------------------------------------------------------
(* Claims about concurrent requests, checked under ConcSpec. *)

\* C11: of the valid POST /api/spin requests that arrive concurrently at a
\* coordinator with no stack, at most one gets a batch job submitted and
\* recorded, and at most one is answered 200 (the others get 409).
C11_AtMostOneJobSubmitted ==
    /\ Cardinality({r \in DOMAIN spinUps : spinUps[r].jobID # ""}) <= 1
    /\ \A r1, r2 \in DOMAIN spinUps :
          (/\ r1 # r2
           /\ spinUps[r1].code = StatusOK) => spinUps[r2].code # StatusOK

---------------------------------------------------------------------------
(* Further claims about the control API, checked under ApiSpec. *)

\* C12: a valid spin-up that gets past the running-stack test and then
\* fails at the temporary directory, at writing the script or at sbatch is
\* answered 500, and afterwards the store holds no stack and the recorded
\* job id and the scheduler's job count are what they were.
C12_FailedSpinUpLeavesNoState ==
    [][\A n \in 1..MaxNodes :
       \A outcome \in {"tmpdir_error", "write_error", "sbatch_error"} :
          (/\ ~IsStackRunning(state)
           /\ HandleSpinUp(TRUE, n, outcome))
          => /\ resp'.code = StatusInternalServerError
             /\ resp'.success = FALSE
             /\ state' = NoState
             /\ currentJobID' = currentJobID
             /\ nextJob' = nextJob]_vars

\* a spin-up failed at submission while an earlier stack was still pending:
\* the store has been cleared and the earlier job id is still recorded
C12_FailedAfterPending ==
    /\ resp.op = "POST /api/spin"
    /\ resp.code = StatusInternalServerError
    /\ state = NoState
    /\ currentJobID # ""

\* C13: a tear-down issued while a job id is recorded and whose scancel
\* succeeds calls scancel exactly once, with that job id, and answers
\* success with it; afterwards the store holds no stack and no job id is
\* recorded, and a valid spin-up that follows is not answered 409.
C13_SpinDownCancelsAndClears ==
    [][/\ (currentJobID # "" /\ HandleSpinDown(TRUE))
          => /\ resp'.scancel = <<currentJobID>>
             /\ resp'.code = StatusOK
             /\ resp'.success
             /\ resp'.job_id = currentJobID
             /\ state' = NoState
             /\ currentJobID' = ""
       /\ \A n \in 1..MaxNodes, outcome \in SpinUpOutcomes :
             (/\ resp.op = "DELETE /api/spin"
              /\ resp.code = StatusOK
              /\ HandleSpinUp(TRUE, n, outcome))
             => resp'.code # StatusConflict]_vars

\* the first job has been cancelled and its stack torn down
C13_TornDown ==
    /\ resp.op = "DELETE /api/spin"
    /\ resp.code = StatusOK
    /\ resp.scancel = <<JobToken(1)>>
    /\ state = NoState
    /\ currentJobID = ""

\* C14: a tear-down requested while the store holds no stack is answered
\* 404 and calls scancel not at all.
C14_SpinDownWithoutStackIsNotFound ==
    [][\A cancels \in BOOLEAN :
          (state = NoState /\ HandleSpinDown(cancels))
          => /\ resp'.code = StatusNotFound
             /\ resp'.scancel = << >>]_vars

\* C15: when scancel fails during a tear-down, the answer is 500 and the
\* stack, with its descriptors and counters, and the recorded job id are
\* what they were before the request.
C15_FailedCancelChangesNothing ==
    [][(currentJobID # "" /\ HandleSpinDown(FALSE))
          => /\ resp'.code = StatusInternalServerError
             /\ resp'.success = FALSE
             /\ resp'.scancel = <<currentJobID>>
             /\ state' = state
             /\ currentJobID' = currentJobID
             /\ nextJob' = nextJob]_vars

\* scancel failed on a stack that has a server and a client registered
C15_CancelFailedOnRegisteredStack ==
    /\ resp.op = "DELETE /api/spin"
    /\ resp.code = StatusInternalServerError
    /\ state # NoState
    /\ state.ServerNode # NoNode
    /\ state.ClientNodes # EmptyMap
    /\ currentJobID = state.JobID

\* the lines of f that open the route block of an external port
RouteBlocks(f, port) ==
    {i \in 1..Len(f.lines) : f.lines[i] = ":" \o ToString(port) \o " {"}

\* f has exactly one route block for port, and it targets address:targetPort
HasOneRoute(f, port, address, targetPort) ==
    /\ Cardinality(RouteBlocks(f, port)) = 1
    /\ \A i \in RouteBlocks(f, port) :
          /\ i < Len(f.lines)
          /\ f.lines[i + 1] =
                "\treverse_proxy " \o address \o ":" \o ToString(targetPort)

\* C16: a server registration the store accepts is answered "registered"
\* and leaves the server recorded as ready whatever the proxy
\* reconfiguration does; when the reconfiguration succeeds on a Caddyfile
\* that had no route for the control port, the file afterwards has exactly
\* one block for that port, targeting the registered address and port.
C16_RegistrationSurvivesProxyAndAddsRoute ==
    [][\A ip \in ServerIPs, cp \in ControlPorts, w, rl \in BOOLEAN :
          (/\ state # NoState
           /\ HandlePostServer(TRUE, ip, ServerAppIOAPIPort, FleetAPIPort,
                               cp, w, rl))
          => /\ resp'.code = StatusOK
             /\ resp'.body = "registered"
             /\ state'.ServerNode # NoNode
             /\ state'.ServerNode.IP = ip
             /\ state'.ServerNode.Status = "ready"
             /\ (resp'.proxy = "ok" /\ RouteBlocks(caddyfile, cp) = {})
                   => HasOneRoute(caddyfile', cp, ip, cp)]_vars

---------------------------------------------------------------------------
(* Claims about the proxy controller, checked under ProxySpec. *)

\* the marker lines of an external port
MarkerLines(f, port) ==
    {i \in 1..Len(f.lines) : f.lines[i] = ProxyLabel(port)}

\* C17: after any sequence of AddReverseProxy calls on the default
\* Caddyfile, every external port has at most one route block and at most
\* one marker line, and a call for a port that already has a block leaves
\* the file, and so the first block's target, as it was.
C17_OneRoutePerPort ==
    /\ [](\A p \in RoutePorts :
             /\ Cardinality(RouteBlocks(caddyfile, p)) <= 1
             /\ Cardinality(MarkerLines(caddyfile, p)) <= 1)
    /\ [][\A p, q \in RoutePorts, a \in RouteTargets, w \in BOOLEAN :
             (RouteBlocks(caddyfile, p) # {} /\ AddRoute(p, a, q, w))
             => /\ caddyfile' = caddyfile
                /\ ret'.err = Nil]_vars

\* a second call for a port that has a block, with another target, has
\* returned without error and the block still has the first target
C17_SecondCallIgnored ==
    /\ ret.op = "AddReverseProxy"
    /\ ret.err = Nil
    /\ Cardinality(RouteBlocks(caddyfile, ret.localPort)) = 1
    /\ ~HasOneRoute(caddyfile, ret.localPort, ret.targetAddress,
                    ret.targetPort)

---------------------------------------------------------------------------
(* Claims about GetServerInfo, checked under WaitSpec. *)

\* C18: GetServerInfo returns a descriptor only from a check that found a
\* server with status ready in the store, and the descriptor is the server a
\* snapshot taken right after the return exposes; it returns the timeout
\* error only once the deadline has passed (whether or not a stack exists),
\* and then no descriptor.
C18_WaitReturnsReadyServer ==
    [][GetServerInfoPoll =>
          /\ (waiter'.pc = "returned" /\ waiter'.err = Nil)
                => /\ state # NoState
                   /\ state.ServerNode # NoNode
                   /\ state.ServerNode.Status = "ready"
                   /\ waiter'.node = GetState(state').ServerNode
          /\ (waiter'.pc = "returned" /\ waiter'.err # Nil)
                => /\ ~(now < waiter.deadline)
                   /\ waiter'.node = NoNode]_vars

\* GetServerInfo found no ready server at its first check, and returned the
\* server at its second
C18_ReturnedAfterWaiting ==
    /\ waiter.pc = "returned"
    /\ waiter.err = Nil
    /\ waiter.polls = 2
    /\ waiter.node # NoNode

---------------------------------------------------------------------------
(* Further claims about the agents, checked under SysSpec. *)

\* the exit status agrees with what happened to the agent
ExitStatusAgrees(agent) ==
    agent.pc = "exited" =>
        (agent.exit # 0 <=> (agent.failed # {} \/ agent.child > 0))

\* C19: an agent that has exited has a non-zero exit status if and only if
\* one of its steps before supervision failed (waiting for the server,
\* starting a daemon, a registration that was rejected) or the child whose
\* termination ended supervision exited non-zero.
C19_ExitStatusTellsFailure ==
    /\ ExitStatusAgrees(serverAgent)
    /\ \A i \in DOMAIN clientAgents : ExitStatusAgrees(clientAgents[i])

---------------------------------------------------------------------------
(* Claims about the path layout, checked under PathSpec. *)

\* C20: every path the layout or one of its users computes lies under the
\* user's home sub-root, $HOME/.florago, and does not have the host-wide
\* temp directory as a prefix, also when the home directory cannot be
\* resolved.
C20_PathsUnderHomeSubRoot ==
    (ret.op \in PathOps /\ ret.err = Nil) =>
        /\ ret.home # ""
        /\ HasPrefix(ret.path, Join(ret.home, ".florago"))
        /\ ~HasPrefix(ret.path, HostTempDir)

---------------------------------------------------------------------------
(* Claims about registrations and spin-up, checked under ApiSpec. *)

\* C21: with no stack in the store, RegisterServerNode and
\* RegisterClientNode return an error and leave the store empty; the
\* registration request is answered 500, and for a server registration the
\* Caddyfile is not touched and no proxy reconfiguration is attempted.
C21_RegistrationWithoutStackFails ==
    [][/\ \A ip \in ServerIPs, cp \in ControlPorts, w, rl \in BOOLEAN :
             (/\ state = NoState
              /\ HandlePostServer(TRUE, ip, ServerAppIOAPIPort, FleetAPIPort,
                                  cp, w, rl))
             => /\ RegisterServerNodeOp(
                      state, NewServerNode(ip, ServerAppIOAPIPort,
                                           FleetAPIPort, cp, "ready"),
                      now).err # Nil
                /\ resp'.code = StatusInternalServerError
                /\ resp'.proxy = "none"
                /\ state' = NoState
                /\ caddyfile' = caddyfile
       /\ \A ip \in ClientIPs :
             (state = NoState /\ HandlePostClient(TRUE, ip))
             => /\ RegisterClientNodeOp(state, NewClientNode(ip, "ready"),
                                        now).err # Nil
                /\ resp'.code = StatusInternalServerError
                /\ state' = NoState]_vars

\* a server registration has been refused on a coordinator that has a
\* Caddyfile and no stack
C21_ServerRefused ==
    /\ resp.op = "POST /api/flower/server"
    /\ resp.code = StatusInternalServerError
    /\ state = NoState
    /\ caddyfile = [exists |-> TRUE, lines |-> CaddyfileTemplate]

---------------------------------------------------------------------------
(* Claims about the store under concurrent calls, checked under LinSpec. *)

\* C22: the store is linearizable.  Whenever no mutator holds the lock, the
\* store is what the mutators that have run leave when applied whole, one at
\* a time, in the order in which they got the lock; and every snapshot
\* GetState has returned is one of the values that reference had at some
\* moment between the call and the return, so no snapshot shows a
\* registration applied in part.
C22_StoreIsLinearizable ==
    /\ mu.writer = 0 => state = linear
    /\ \A g \in DOMAIN goroutines :
          (goroutines[g].op = "GetState" /\ goroutines[g].pc = "done")
          => goroutines[g].snap \in goroutines[g].window

\* a snapshot was taken while a ready registration was carried out by
\* another goroutine, and it shows the registration
C22_SnapshotDuringRegistration ==
    \E g \in DOMAIN goroutines :
        /\ goroutines[g].op = "GetState"
        /\ goroutines[g].pc = "done"
        /\ Cardinality(goroutines[g].window) = 2
        /\ goroutines[g].snap # NoState
        /\ goroutines[g].snap.CompletedNodes = 1

---------------------------------------------------------------------------
(* Claims about the spin-up handler, checked under ApiSpec. *)

\* C23: a POST /api/spin with num_nodes = N >= 1, made when the store holds no
\* stack and answered by sbatch with "Submitted batch job J", is answered 200
\* with success, job_id J and a snapshot that is pending, expects N + 1
\* nodes, has counted none and has no server and no clients; the answer is
\* part of the handler's own step, before any agent has registered.
C23_SpinUpAnswersPendingSnapshot ==
    [][\A n \in 1..MaxNodes :
          (state = NoState /\ HandleSpinUp(TRUE, n, "submitted"))
          => /\ SbatchOutput(nextJob + 1, FALSE)
                  = <<"Submitted", "batch", "job", JobToken(nextJob + 1)>>
             /\ resp'.code = StatusOK
             /\ resp'.success
             /\ resp'.job_id = JobToken(nextJob + 1)
             /\ resp'.state.JobID = JobToken(nextJob + 1)
             /\ resp'.state.Status = "pending"
             /\ resp'.state.NumNodes = n
             /\ resp'.state.ExpectedNodes = n + 1
             /\ resp'.state.CompletedNodes = 0
             /\ resp'.state.ServerNode = NoNode
             /\ resp'.state.ClientNodes = EmptyMap
             /\ state' = resp'.state]_vars

\* spin-up of a two-client stack was just answered with its pending snapshot
C23_SubmittedAndAnswered ==
    /\ resp.op = "POST /api/spin"
    /\ resp.code = StatusOK
    /\ resp.job_id = JobToken(1)
    /\ resp.state.ExpectedNodes = 3
    /\ state = resp.state

\* C24: a POST /api/spin whose body does not decode or whose num_nodes is
\* below 1 is answered 400, writes no script, calls sbatch not at all and
\* leaves the store and the recorded job id as they were, with or without a
\* stack in the store.
C24_BadSpinRequestChangesNothing ==
    [][resp'.op = "POST /api/spin" =>
       \A decodes \in BOOLEAN, n \in 0..MaxNodes, outcome \in SpinUpOutcomes :
          ((~decodes \/ n < 1) /\ HandleSpinUp(decodes, n, outcome))
          => /\ resp'.code = StatusBadRequest
             /\ ~resp'.success
             /\ ~resp'.script
             /\ resp'.sbatch = 0
             /\ state' = state
             /\ currentJobID' = currentJobID
             /\ nextJob' = nextJob]_vars

\* a bad request was refused while a stack with a registered server existed
C24_RefusedWithStack ==
    /\ resp.op = "POST /api/spin"
    /\ resp.code = StatusBadRequest
    /\ state # NoState
    /\ state.ServerNode # NoNode
    /\ currentJobID = JobToken(1)

\* C25: between requests the recorded job id is non-empty exactly when the
\* store holds a stack, and is then that stack's job id; so DELETE /api/spin
\* finds a job to cancel whenever POST /api/spin would be refused with 409.
C25_JobIdTracksStore ==
    /\ currentJobID # "" <=> state # NoState
    /\ state # NoState => currentJobID = state.JobID
    /\ IsStackRunning(state) => SpinDownOutcome(currentJobID, TRUE) # "not_found"

---------------------------------------------------------------------------
(* Claims about what the agents' messages do to the store, checked under *)
(* SysSpec.                                                              *)

\* C26: the server agent's two announcements count the server as ready once:
\* while no client has registered the ready count is at most 1, and a stack
\* that expects at least one client is not running.
C26_ServerAgentCountedOnce ==
    (state # NoState /\ state.ClientNodes = EmptyMap)
    => /\ state.CompletedNodes <= 1
       /\ state.NumNodes >= 1 => state.Status # "running"

---------------------------------------------------------------------------
(* Further claims about the spin-up handler, checked under ApiSpec. *)

\* C27: when sbatch exits zero, spin-up answers 200 only with the non-empty
\* token that follows "Submitted batch job " in the output; when no token
\* can be parsed it answers 500, leaves no stack in the store and records no
\* job id.
C27_SuccessOnlyWithParsedJobId ==
    [][\A n \in 1..MaxNodes, outcome \in {"submitted", "noisy"} :
          (~IsStackRunning(state) /\ HandleSpinUp(TRUE, n, outcome))
          => LET jobID == parseJobID(
                             SbatchOutput(nextJob + 1, outcome = "noisy"))
             IN  IF jobID # ""
                 THEN /\ resp'.code = StatusOK
                      /\ resp'.job_id = jobID
                 ELSE /\ resp'.code = StatusInternalServerError
                      /\ state' = NoState
                      /\ currentJobID' = currentJobID]_vars

---------------------------------------------------------------------------
(* Further claims about the store, checked under Spec. *)

\* C28: the completion check is idempotent.  On a running stack running it
\* again changes nothing, and no registration or status update of that stack
\* changes its completion_time, which was set on entering running.
C28_CompletionTimeSetOnce ==
    [][ (state # NoState /\ state.Status = "running")
        => /\ checkCompletion(state, now) = state
           /\ ( \/ \E node \in ServerNodes : RegisterServerNode(node)
                \/ \E node \in ClientNodes : RegisterClientNode(node)
                \/ \E ip \in ServerIPs, st \in ServerStatus :
                      UpdateServerNodeStatus(ServerNodeID(ip), st)
                \/ \E ip \in ClientIPs, st \in ClientStatus :
                      UpdateClientNodeStatus(ClientNodeID(ip), st) )
              => state'.CompletionTime = state.CompletionTime ]_vars

\* C29: register_server moves the status to starting only from pending.  A
\* registration of a server that is not ready, on a stack that is starting
\* or running, leaves the status as it is: a running stack stays running.
C29_RegisterServerKeepsStatus ==
    [][\A node \in ServerNodes :
          ( /\ state # NoState
            /\ state.Status \in {"starting", "running"}
            /\ node.Status # "ready"
            /\ RegisterServerNode(node) )
          => state'.Status = state.Status ]_vars

---------------------------------------------------------------------------
(* Claims about agents of other jobs, checked under JobsSpec. *)

\* C30: a registration sent by the server agent of a job that is not the
\* current stack's job leaves the current stack's ready count, server
\* descriptor and status as they are.
C30_OtherJobsAgentNotCounted ==
    [][\A k \in 1..MaxJobs, writable, reloads \in BOOLEAN :
          ( /\ state # NoState
            /\ JobToken(k) # state.JobID
            /\ AgentPostServer(k, writable, reloads) )
          => /\ state'.CompletedNodes = state.CompletedNodes
             /\ state'.ServerNode = state.ServerNode
             /\ state'.Status = state.Status ]_vars

---------------------------------------------------------------------------
(* Claims about the route across stack lifetimes, checked under LifeSpec. *)

\* C31: when the server of the current stack has registered and the proxy
\* reconfiguration for it reported success, the Caddyfile's route for the
\* server's control port targets that server's address, also for a stack
\* created after an earlier one was torn down.
C31_RouteTargetsRegisteredServer ==
    [][\A writable, reloads \in BOOLEAN :
          (LifePostServer(writable, reloads) /\ resp'.proxy = "ok")
          => HasOneRoute(caddyfile', state'.ServerNode.ControlAPIPort,
                         state'.ServerNode.IP,
                         state'.ServerNode.ControlAPIPort)]_vars

---------------------------------------------------------------------------
(* Claims about the recorded job id under concurrent requests, checked *)
(* under RaceSpec.                                                     *)

\* C32: the handlers' accesses to the recorded job id exclude one another:
\* no two handlers are inside an assignment to currentJobID at the same
\* time (a tear-down clearing it while a spin-up records a new one), and so
\* the variable never holds a value that no handler assigned.
C32_JobIdAssignmentsExclude ==
    /\ \A r, q \in DOMAIN spinUps :
          (r # q) => ~(WritingJobID(r) /\ WritingJobID(q))
    /\ currentJobID # TornJobID

---------------------------------------------------------------------------
(* Claims about concurrent route additions, checked under FileSpec. *)

\* the lines begin with the global options block that init wrote
StartsWithTemplate(lines) ==
    /\ Len(lines) >= Len(CaddyfileTemplate)
    /\ SubSeq(lines, 1, Len(CaddyfileTemplate)) = CaddyfileTemplate

\* C33: the proxy controller serialises its file accesses.  Once concurrent
\* AddReverseProxy calls for distinct external ports have all returned, the
\* Caddyfile holds the template and one complete route block, with the
\* call's target, for the port of every call; no call has read a file that
\* another was in the middle of writing.
C33_ConcurrentRoutesAllWritten ==
    /\ (\A g \in DOMAIN goroutines : goroutines[g].pc \in {"none", "done"})
       => /\ caddyfile.exists
             => StartsWithTemplate(caddyfile.lines)
          /\ \A g \in DOMAIN goroutines :
                goroutines[g].pc = "done"
                => HasOneRoute(caddyfile, goroutines[g].node.localPort,
                               goroutines[g].node.targetAddress,
                               goroutines[g].node.localPort)
    /\ \A g \in DOMAIN goroutines :
          goroutines[g].pc = "read"
          => StartsWithTemplate(goroutines[g].snap)

---------------------------------------------------------------------------
(* Further claims about the proxy controller, checked under ProxySpec. *)

\* C34: AddReverseProxy(n, addr, p), called when the Caddyfile exists, can
\* be written and holds no route block for n, appends exactly the marker
\* line for n and the block ":n { reverse_proxy addr:p }", whatever other
\* ports have blocks, also a port whose digits begin with those of n.
C34_MissingRouteIsAppended ==
    [][\A n, p \in RoutePorts, addr \in RouteTargets :
          ( /\ caddyfile.exists
            /\ RouteBlocks(caddyfile, n) = {}
            /\ AddRoute(n, addr, p, TRUE) )
          => /\ Len(caddyfile'.lines) = Len(caddyfile.lines) + 4
             /\ SubSeq(caddyfile'.lines, 1, Len(caddyfile.lines))
                  = caddyfile.lines
             /\ caddyfile'.lines[Len(caddyfile.lines) + 1] = ProxyLabel(n)
             /\ HasOneRoute(caddyfile', n, addr, p)
             /\ caddyfile'.lines[Len(caddyfile.lines) + 4] = "}" ]_vars

---------------------------------------------------------------------------
(* Claims about the order of the server agent's steps, checked under *)
(* SysSpec.                                                          *)

---------------------------------------------------------------------------
(* Claims about descriptors handed out by the store, checked under *)
(* AliasSpec.                                                      *)

\* C36: a descriptor the store handed out, or was handed, is insulated from
\* the store.  The descriptor a caller holds (returned by GetServerInfo,
\* taken from a snapshot, or passed to RegisterServerNode) changes only
\* when the caller changes it, and the caller changing it leaves the store
\* as it was.
C36_DescriptorsInsulated ==
    /\ [](waiter.pc = "holding" => waiter.node = waiter.got)
    /\ [][\A status \in ServerStatus :
             HolderSetsStatus(status) => state' = state]_vars

---------------------------------------------------------------------------
(* Claims about callers blocked in GetServerInfo, checked under *)
(* PollLiveSpec.                                                 *)

\* the goroutine is in GetServerInfo and has not returned
Waiting(c) == c.op = "GetServerInfo" /\ c.pc # "returned"

\* C37: a caller of GetServerInfo holds no lock while it sleeps, so that,
\* whatever the number of callers, every RegisterServerNode,
\* RegisterClientNode and ClearState call gets the write lock and completes;
\* and while a ready server stays recorded, every caller whose deadline has
\* not passed eventually returns that server.
C37_WaitersReturnReadyServer ==
    /\ [](( \A g \in 1..MaxCalls : ~Runnable(goroutines[g]) )
            => mu = [writer |-> 0, readers |-> 0])
    /\ \A g \in 1..MaxCalls :
          (goroutines[g].pc = "called") ~> (goroutines[g].pc = "done")
    /\ \A g \in 1..MaxCalls :
          ( /\ Waiting(goroutines[g])
            /\ now < goroutines[g].deadline
            /\ ServerReady(state) )
          ~> ( \/ ~ServerReady(state)
               \/ /\ goroutines[g].pc = "returned"
                  /\ goroutines[g].node = state.ServerNode )

\* C37, with the poll interval taken into account: a caller of
\* GetServerInfo holds no lock while it sleeps, every RegisterServerNode,
\* RegisterClientNode and ClearState call gets the write lock and completes,
\* and while a ready server stays recorded, every caller that has found its
\* deadline not passed and goes on to its check returns that server.
C37_PollingWaitersReturnReadyServer ==
    /\ [](( \A g \in 1..MaxCalls : ~Runnable(goroutines[g]) )
            => mu = [writer |-> 0, readers |-> 0])
    /\ \A g \in 1..MaxCalls :
          (goroutines[g].pc = "called") ~> (goroutines[g].pc = "done")
    /\ \A g \in 1..MaxCalls :
          ( /\ goroutines[g].pc \in {"rlock", "check"}
            /\ ServerReady(state) )
          ~> ( \/ ~ServerReady(state)
               \/ /\ goroutines[g].pc = "returned"
                  /\ goroutines[g].node = state.ServerNode )

\* a caller that has slept has returned the server another goroutine
\* registered in the meantime
C37_ReturnedAfterSleep ==
    \E g, h \in 1..MaxCalls :
        /\ goroutines[g].op = "GetServerInfo"
        /\ goroutines[g].pc = "returned"
        /\ goroutines[g].wake > 0
        /\ goroutines[g].node # NoNode
        /\ goroutines[g].node = state.ServerNode
        /\ goroutines[h].op = "RegisterServerNode"
        /\ goroutines[h].pc = "done"

---------------------------------------------------------------------------
(* Claims about the batch script, checked under ScriptSpec. *)

\* the launches of the verb on the node
Launches(verb, node) ==
    { i \in 1..Len(job.launched) :
        job.launched[i].verb = verb /\ job.launched[i].node = node }

\* the directives of the header that give the option
Directives(opt) ==
    { i \in 1..Len(job.script) :
        job.script[i].kind = "#SBATCH" /\ job.script[i].a = opt }

\* C38: the script of a request for N clients asks for N+1 nodes of one task
\* each, whatever optional fields the request carries; run on the N+1
\* nodes of its allocation, it launches the server agent on the first node
\* only and client agents on the other nodes only, each at most once, every
\* launch in the background and before the final wait; when the shell is at
\* the wait, it has launched one server agent on the first node and one
\* client agent on each of the other N nodes.
C38_ScriptLaunchesOneAgentPerNode ==
    job.pc # "none" =>
       LET n == job.req.NumNodes
           last == Len(job.script)
       IN  /\ Cardinality(Directives("--nodes")) = 1
           /\ Directive(job.script, "--nodes", 1) = n + 1
           /\ Cardinality(Directives("--ntasks-per-node")) = 1
           /\ Directive(job.script, "--ntasks-per-node", 0) = 1
           /\ job.script[last].kind = "wait"
           /\ \A i \in 1..(last - 1) : job.script[i].kind # "wait"
           /\ job.pc # "blocked"
           /\ job.pc \in {"running", "waiting"} =>
                 /\ Len(job.hosts) = n + 1
                 /\ \A i \in 1..Len(job.launched) :
                       /\ job.launched[i].bg
                       /\ job.launched[i].at < last
                       /\ IF job.launched[i].verb = "flowerserver"
                          THEN job.launched[i].node = job.hosts[1]
                          ELSE /\ job.launched[i].verb = "flowerclient"
                               /\ \E k \in 2..(n + 1) :
                                     job.launched[i].node = job.hosts[k]
                 /\ \A k \in 1..(n + 1), verb \in {"flowerserver", "flowerclient"} :
                       Cardinality(Launches(verb, job.hosts[k])) <= 1
           /\ job.pc = "waiting" =>
                 /\ Len(job.launched) = n + 1
                 /\ Cardinality(Launches("flowerserver", job.hosts[1])) = 1
                 /\ \A k \in 2..(n + 1) :
                       Cardinality(Launches("flowerclient", job.hosts[k])) = 1

\* the shell is at the wait of a script for two clients and a partition
C38_AllAgentsLaunched ==
    /\ job.pc = "waiting"
    /\ job.req.NumNodes >= 2
    /\ job.req.Partition # ""
    /\ job.req.Memory = ""
    /\ Len(job.launched) = job.req.NumNodes + 1

=============================================================================
